---- MODULE Spec2Model ----
(***************************************************************************)
(* Verification model of the Jeserai Telegram bot:                         *)
(*   - BotHandlers (src/bot_handlers.py): conversation memory, group gate, *)
(*     per-user modes, broadcast utilities;                                *)
(*   - MultiAIClient (src/multi_ai_client.py): the provider gateway.       *)
(*                                                                         *)
(* Texts are modelled by a finite set of representative strings; the       *)
(* keyword tests of the source (substring / list membership) are modelled  *)
(* by the set of representative strings that pass them.  Arabic phrases    *)
(* are written in ASCII transliteration, the original is quoted in the     *)
(* comment next to each one.                                               *)
(***************************************************************************)
EXTENDS Integers, Sequences, FiniteSets, TLC

VARIABLES
    conversations,      \* self.conversations: user_id -> list of exchanges
    long_term_memory,   \* self.long_term_memory: user_id -> pattern record
    clock,              \* time.time(), a strictly increasing stamp
    last_add,           \* the arguments of the last add_message_to_conversation
    gemini_client,      \* MultiAIClient.gemini_client is set (GEMINI_API_KEY given)
    gw,                 \* the last gateway operation: inputs, provider calls, outcome
    users,              \* self.users: the known-users set
    group_status,       \* self.group_status: str(chat_id) -> active
    user_modes,         \* self.user_modes: user_id -> mode
    ev,                 \* the last update handled: route, Telegram calls, outcome
    bc,                 \* the last broadcast pass: targets, outcomes, counts
    update_queue,       \* Application.update_queue: updates not yet fetched
    tasks               \* the handle_message calls started, each with its position

memvars == <<conversations, long_term_memory, clock, last_add>>
gwvars == <<gemini_client, gw>>
routervars == <<users, group_status, user_modes, ev>>
appvars == <<update_queue, tasks>>
vars == <<memvars, gwvars, routervars, bc, appvars>>

----------------------------------------------------------------------------
(* Bounds of the model *)

Users == {1, 2}
MaxAdds == 2            \* exchanges recorded in one behaviour
MaxChatTurns == 1       \* chat turns of the router in one behaviour
MaxTargets == 2         \* entries of a targeted broadcast list
PreloadSlack == 1       \* a loaded history holds max-PreloadSlack .. max entries
MaxChunks == 2          \* messages needed to show a text file
MaxUpdates == 2         \* text messages that arrive at the application
MaxLen == 5             \* characters of a text given to the response sanitizer
QuestionSlack == 1      \* a loaded question history holds 20-QuestionSlack .. 20 entries

(* Program constants *)
max_messages_per_user == 100

----------------------------------------------------------------------------
(* Representative texts *)

\*   "shlonak"                = شلونك
\*   "marhaba"                = مرحبا
\*   "shno rayak kam min 10"  = شنو رأيك كم من 10
Messages == {"shlonak", "marhaba", "shno rayak kam min 10"}
\*   "zain" = زين,  "sharh mufassal" = شرح مفصل
Responses == {"zain", "sharh mufassal"}

\* The keywords of the source's tables that occur in each representative
\* text (the `kw in text.lower()` tests).
\*   "shno" = شنو, "kam min 10" = كم من 10, "min 10" = من 10, "ray" = رأي,
\*   "sharh" = شرح, "shlon" = شلون, "ariid" = اريد, "sayara" = سيارة,
\*   "sual" = سؤال, "mumkin" = ممكن; the error messages are matched after
\*   str(e).lower()
Substrings(text) ==
    CASE text = "shlonak" -> {"shlonak", "shlon"}
      [] text = "shno rayak kam min 10" ->
            {"shno", "ray", "kam min 10", "min 10"}
      [] text = "sharh mufassal" -> {"sharh"}
      [] text = "areed sharh mufassal an kul shi bil tafseel min al bidaya ila al nihaya law samaht habibi" ->
            {"areed", "sharh"}
      [] text = "ariid sayara" -> {"ariid", "sayara"}
      [] text = "sual" -> {"sual"}
      [] text = "mumkin" -> {"mumkin"}
      [] text = "Error code: 402" -> {"402"}
      [] text = "Insufficient credits" -> {"credit"}
      [] text = "Payment Required" -> {"payment"}
      [] text = "draw me bazzuna" -> {"draw me"}
      [] text = "reply in detail, give real musaada, do not open with shlonak" ->
            {"musaada", "shlonak", "shlon"}
      [] text = "forbidden: bot was blocked by the user" -> {"bot was blocked"}
      [] text = "rely on the context above, do not repeat the same replies" ->
            {"sual"}
      [] OTHER -> {}

\* kw in text
Contains(text, kw) == kw = text \/ kw \in Substrings(text)

\* len(text.split())
WordCount(text) ==
    CASE text = "shno rayak kam min 10" -> 5
      [] text = "sharh mufassal" -> 2
      [] text = "areed sharh mufassal an kul shi bil tafseel min al bidaya ila al nihaya law samaht habibi" -> 17
      [] text = "" -> 0
      [] OTHER -> 1

----------------------------------------------------------------------------
(* Sequence helpers (Python list semantics) *)

\* lst[-n:]  -- the last n elements, the whole list when it is shorter
FirstN(lst, n) == IF Len(lst) <= n THEN lst ELSE SubSeq(lst, 1, n)

LastN(lst, n) ==
    IF Len(lst) <= n THEN lst ELSE SubSeq(lst, Len(lst) - n + 1, Len(lst))

\* dict lookup with default: d.get(k, default)
Get(d, k, default) == IF k \in DOMAIN d THEN d[k] ELSE default

\* d[k] = v on a dict
Put(d, k, v) == [x \in (DOMAIN d) \cup {k} |-> IF x = k THEN v ELSE d[x]]

\* del d[k]
Del(d, k) == [x \in (DOMAIN d) \ {k} |-> d[x]]

EmptyDict == [x \in {} |-> 0]

\* any(kw in text for kw in kws)
AnyIn(text, kws) == \E kw \in kws : Contains(text, kw)

\* x in lst
InList(x, lst) == \E i \in 1..Len(lst) : lst[i] = x

----------------------------------------------------------------------------
(* Conversation Memory Engine: pattern extraction *)

\* "zakira" = ذاكرة, "taqyeem" = تقييم, "jayed" = جيد, "mumtaz" = ممتاز,
\* "sura" = صورة, "musaada" = مساعدة, "kaif" = كيف, "wain" = وين,
\* "laish" = ليش, "mata" = متى, "asila" = أسئلة, "maalumat" = معلومات
extended_keywords ==
    <<"zakira", "taqyeem", "kam min 10", "jayed", "mumtaz", "shlonak", "sura",
      "musaada", "kaif", "shno", "wain", "laish", "mata", "asila",
      "maalumat", "sharh">>

\* the ordered pattern table of extract_question_essence
question_patterns ==
    << <<"shno", "what_question">>, <<"kaif", "how_question">>,
       <<"wain", "where_question">>, <<"mata", "when_question">>,
       <<"laish", "why_question">>, <<"kam min 10", "rating_question">>,
       <<"shlonak", "greeting_question">>, <<"musaada", "help_question">>,
       <<"sharh", "explain_request">> >>

\* "?" = ؟, "areed" = أريد, "abgha" = أبغى, "aawiz" = عاوز, "biddi" = بدي
extract_question_essence(message) ==
    LET hits == {i \in 1..Len(question_patterns) :
                    Contains(message, question_patterns[i][1])}
    IN  IF hits # {}
        THEN question_patterns[CHOOSE i \in hits : \A j \in hits : i <= j][2]
        ELSE IF Contains(message, "?")
                \/ AnyIn(message, {"areed", "abgha", "aawiz", "biddi"})
             THEN "general_inquiry"
             ELSE ""

\* "tafseel" = تفصيل, "naam" = نعم, "la" = لا, "sah" = صح, "khata" = خطأ,
\* "khidma" = خدمة, "asaadak" = أساعدك, "daraja" = درجة
categorize_response(response) ==
    IF AnyIn(response, {"sharh", "tafseel", "maalumat"}) THEN "detailed_explanation"
    ELSE IF AnyIn(response, {"naam", "la", "sah", "khata"}) THEN "simple_answer"
    ELSE IF AnyIn(response, {"musaada", "khidma", "asaadak"}) THEN "helpful_guidance"
    ELSE IF Contains(response, "/10") \/ AnyIn(response, {"daraja", "taqyeem"})
         THEN "rating_response"
    ELSE "general_response"

\* the ordered theme table of detect_conversation_theme
\* themes: "tiqniya" = تقنية, "taalimiya" = تعليمية, "shakhsiya" = شخصية,
\*         "talab musaada" = طلب مساعدة, "taqyeem" = تقييم, "aam" = عام
theme_patterns ==
    << <<"tiqniya", {"barmaja", "computer", "internet", "tatbiq", "mawqi",
                     "zaka istinai"}>>,
       <<"taalimiya", {"sharh", "taallum", "dirasa", "kitab", "maalumat",
                       "asila"}>>,
       <<"shakhsiya", {"shlonak", "kaifak", "akhbar", "hal", "sihha"}>>,
       <<"talab musaada", {"musaada", "saaidni", "ahtaj", "biddi", "areed"}>>,
       <<"taqyeem", {"kam min 10", "taqyeem", "ray", "daraja", "jayed",
                     "mumtaz"}>> >>

\* a theme detection without the default theme
detect_conversation_theme_noDefault(message) ==
    LET hits == {i \in 1..Len(theme_patterns) :
                    AnyIn(message, theme_patterns[i][2])}
    IN  IF hits # {}
        THEN theme_patterns[CHOOSE i \in hits : \A j \in hits : i <= j][1]
        ELSE ""

detect_conversation_theme(message) ==
    LET hits == {i \in 1..Len(theme_patterns) :
                    AnyIn(message, theme_patterns[i][2])}
    IN  IF hits # {}
        THEN theme_patterns[CHOOSE i \in hits : \A j \in hits : i <= j][1]
        ELSE "aam"

\* the record a user gets on the first update (and the defaults of the
\* self-healing merge)
required_fields ==
    [frequent_topics |-> <<>>,
     communication_style |-> <<>>,
     preferences |-> EmptyDict,
     total_messages |-> 0,
     question_history |-> <<>>,
     conversation_themes |-> EmptyDict,
     response_preferences |-> EmptyDict]

\* for field, default in required_fields.items(): if field not in memory: ...
HealFields(memory) ==
    [f \in (DOMAIN memory) \cup (DOMAIN required_fields) |->
        IF f \in DOMAIN memory THEN memory[f] ELSE required_fields[f]]

\* A dict whose iteration order is observed (frequent_topics) is a sequence
\* of <<key, value>> pairs in insertion order.
OdHas(od, k) == \E i \in 1..Len(od) : od[i][1] = k

OdGet(od, k, default) ==
    IF OdHas(od, k)
    THEN od[CHOOSE i \in 1..Len(od) : od[i][1] = k][2]
    ELSE default

OdPut(od, k, v) ==
    IF OdHas(od, k)
    THEN [i \in 1..Len(od) |-> IF od[i][1] = k THEN <<k, v>> ELSE od[i]]
    ELSE Append(od, <<k, v>>)

\* for keyword in extended_keywords[i..]: if keyword in user_lower:
\*     topics[keyword] = topics.get(keyword, 0) + 1
RECURSIVE CountTopicsFrom(_, _, _)
CountTopicsFrom(topics, message, i) ==
    IF i > Len(extended_keywords) THEN topics
    ELSE LET kw == extended_keywords[i]
         IN  CountTopicsFrom(
                 IF Contains(message, kw)
                 THEN OdPut(topics, kw, OdGet(topics, kw, 0) + 1)
                 ELSE topics,
                 message, i + 1)

CountTopics(topics, message) == CountTopicsFrom(topics, message, 1)

\* a tracking that keeps the first 20 questions instead of the last 20
TrackQuestion_keepOldest(history, message, response, now) ==
    LET essence == extract_question_essence(message)
    IN  IF essence # ""
        THEN FirstN(Append(history,
                           [question |-> essence,
                            full_message |-> message,
                            timestamp |-> now,
                            response_type |-> categorize_response(response)]),
                    20)
        ELSE history

\* question_history.append(...) and the cut to the last 20
TrackQuestion(history, message, response, now) ==
    LET essence == extract_question_essence(message)
    IN  IF essence # ""
        THEN LastN(Append(history,
                          [question |-> essence,
                           full_message |-> message,
                           timestamp |-> now,
                           response_type |-> categorize_response(response)]),
                   20)
        ELSE history

\* an append that does not look for the descriptor in the list
AddStyle_always(style, descriptor) == Append(style, descriptor)

\* append a descriptor unless it is already in the list
AddStyle(style, descriptor) ==
    IF InList(descriptor, style) THEN style ELSE Append(style, descriptor)

\* descriptors: "likes numeric ratings" = يحب التقييمات الرقمية,
\*   "uses short messages" = يستخدم رسائل قصيرة,
\*   "prefers detailed explanation" = يفضل الشرح المفصل
TrackStyle(style, message) ==
    LET s1 == IF Contains(message, "min 10") \/ Contains(message, "kam min 10")
              THEN AddStyle(style, "likes numeric ratings")
              ELSE style
    IN  IF WordCount(message) <= 3 THEN AddStyle(s1, "uses short messages")
        ELSE IF WordCount(message) > 15
             THEN AddStyle(s1, "prefers detailed explanation")
             ELSE s1

\* update_long_term_memory: the new value of self.long_term_memory
update_long_term_memory(ltm, user_id, user_message, bot_response, now) ==
    LET memory == HealFields(Get(ltm, user_id, required_fields))
        theme == detect_conversation_theme(user_message)
        updated ==
            [memory EXCEPT
                !["total_messages"] = @ + 1,
                !["frequent_topics"] = CountTopics(@, user_message),
                !["question_history"] =
                    TrackQuestion(@, user_message, bot_response, now),
                !["communication_style"] = TrackStyle(@, user_message),
                !["conversation_themes"] =
                    IF theme # "" THEN Put(@, theme, Get(@, theme, 0) + 1) ELSE @]
    IN  Put(ltm, user_id, updated)

----------------------------------------------------------------------------
(* Conversation Memory Engine: the exchange store *)

\* a cut that keeps the oldest entries instead of the newest (lst[:max])
Truncate_keepOldest(lst) ==
    IF Len(lst) > max_messages_per_user
    THEN SubSeq(lst, 1, max_messages_per_user)
    ELSE lst

\* if len(lst) > max_messages_per_user: lst = lst[-max_messages_per_user:]
Truncate(lst) ==
    IF Len(lst) > max_messages_per_user
    THEN LastN(lst, max_messages_per_user)
    ELSE lst

\* add_message_to_conversation(user_id, user_message, bot_response)
\* (save_conversations / save_long_term_memory rewrite the two files from
\* the in-memory maps; the files are not read again, so they carry no state)
add_message_to_conversation(user_id, user_message, bot_response) ==
    LET exchange == [timestamp |-> clock,
                     user |-> user_message,
                     assistant |-> bot_response]
        before == Get(conversations, user_id, <<>>)
    IN  /\ conversations' =
               Put(conversations, user_id, Truncate(Append(before, exchange)))
        /\ long_term_memory' =
               update_long_term_memory(long_term_memory, user_id,
                                       user_message, bot_response, clock)
        /\ clock' = clock + 1
        /\ last_add' = [user_id |-> user_id, exchange |-> exchange]

\* a clear that forgets every user
clear_conversation_all(user_id) == conversations' = EmptyDict

\* a clear that deletes nothing
clear_conversation_nothing(user_id) == conversations' = conversations

\* clear_conversation(user_id)
clear_conversation(user_id) ==
    conversations' = IF user_id \in DOMAIN conversations
                     THEN Del(conversations, user_id)
                     ELSE conversations

----------------------------------------------------------------------------
(* Conversation Memory Engine: the context block                           *)
(* A rendered text is the sequence of its pieces, in order; the empty text *)
(* is the empty sequence.                                                  *)

\* kw in text, for a rendered text
TextContains(text, kw) == \E i \in 1..Len(text) : Contains(text[i], kw)

TextAnyIn(text, kws) == \E kw \in kws : TextContains(text, kw)

\* the fixed instruction at the end of every non-empty context; it contains
\* the word السؤال
InstructionSuffix == "rely on the context above, do not repeat the same replies"

\* sorted(items, key=count, reverse=True)[:3] -- a stable sort
TopTopics(topics) ==
    LET Rank(i) ==
            Cardinality({j \in 1..Len(topics) : topics[j][2] > topics[i][2]})
            + Cardinality({j \in 1..(i - 1) : topics[j][2] = topics[i][2]})
        n == IF Len(topics) < 3 THEN Len(topics) ELSE 3
    IN  [r \in 1..n |-> topics[CHOOSE i \in 1..Len(topics) : Rank(i) = r - 1]]

RECURSIVE Flatten(_)
Flatten(lists) ==
    IF lists = <<>> THEN <<>> ELSE Head(lists) \o Flatten(Tail(lists))

\* get_user_patterns(user_id) with self.long_term_memory = ltm: the parts
\* joined by " | "
get_user_patterns_in(ltm, user_id) ==
    IF user_id \notin DOMAIN ltm THEN <<>>
    ELSE LET memory == ltm[user_id]
             top == TopTopics(memory["frequent_topics"])
         IN  (IF memory["total_messages"] > 5
              THEN <<"total messages:", ToString(memory["total_messages"])>>
              ELSE <<>>)
             \o (IF memory["frequent_topics"] # <<>>
                 THEN <<"favourite topics:">>
                      \o Flatten([i \in 1..Len(top) |->
                                     <<top[i][1], ToString(top[i][2])>>])
                 ELSE <<>>)
             \o (IF memory["communication_style"] # <<>>
                 THEN <<"communication style:">> \o memory["communication_style"]
                 ELSE <<>>)

\* get_user_patterns(user_id)
get_user_patterns(user_id) == get_user_patterns_in(long_term_memory, user_id)

\* "wa-baadain" = وبعدين, "kaman" = كمان, "aydan" = أيضاً, "lakin" = لكن,
\* "matha an" = ماذا عن, "wa-aish" = وإيش, "wa-shno" = وشنو
follow_up_indicators ==
    {"wa-baadain", "kaman", "aydan", "lakin", "matha an", "wa-aish", "wa-shno"}

\* has_conversation_progression(messages)
has_conversation_progression(messages) ==
    /\ Len(messages) >= 2
    /\ \E i \in 2..Len(messages) : AnyIn(messages[i], follow_up_indicators)

\* the essences that occur more than twice among the given questions
RepeatedEssences_moreThanTwice(questions) ==
    LET Count(e) == Cardinality({i \in 1..Len(questions) :
                                    questions[i].question = e})
        firsts == {i \in 1..Len(questions) :
                      /\ Count(questions[i].question) > 2
                      /\ \A j \in 1..(i - 1) :
                            questions[j].question # questions[i].question}
        RECURSIVE InOrder(_)
        InOrder(idx) ==
            IF idx = {} THEN <<>>
            ELSE LET m == CHOOSE i \in idx : \A j \in idx : i <= j
                 IN  <<questions[m].question>> \o InOrder(idx \ {m})
    IN  InOrder(firsts)

\* the essences that occur more than once among the given questions, in the
\* order of their first occurrence
RepeatedEssences(questions) ==
    LET Count(e) == Cardinality({i \in 1..Len(questions) :
                                    questions[i].question = e})
        firsts == {i \in 1..Len(questions) :
                      /\ Count(questions[i].question) > 1
                      /\ \A j \in 1..(i - 1) :
                            questions[j].question # questions[i].question}
        RECURSIVE InOrder(_)
        InOrder(idx) ==
            IF idx = {} THEN <<>>
            ELSE LET m == CHOOSE i \in idx : \A j \in idx : i <= j
                 IN  <<questions[m].question>> \o InOrder(idx \ {m})
    IN  InOrder(firsts)

\* analyze_conversation_patterns(user_id) with self.conversations = convs
\* and self.long_term_memory = ltm: the parts joined by " | "
analyze_conversation_patterns_in(convs, ltm, user_id) ==
    IF \/ user_id \notin DOMAIN ltm
       \/ Get(convs, user_id, <<>>) = <<>>
    THEN <<>>
    ELSE LET memory == ltm[user_id]
             history == convs[user_id]
             repeated ==
                 IF "question_history" \in DOMAIN memory
                    /\ Len(memory["question_history"]) > 1
                 THEN RepeatedEssences(LastN(memory["question_history"], 5))
                 ELSE <<>>
             recent == LastN(history, 3)
         IN  (IF repeated # <<>>
              THEN <<"repeated questions:">> \o FirstN(repeated, 2)
              ELSE <<>>)
             \o (IF Len(history) >= 3
                 THEN IF has_conversation_progression(
                            [i \in 1..Len(recent) |-> recent[i].user])
                      THEN <<"the conversation is progressive and connected">>
                      ELSE <<"varied unrelated questions">>
                 ELSE <<>>)

\* analyze_conversation_patterns(user_id)
analyze_conversation_patterns(user_id) ==
    analyze_conversation_patterns_in(conversations, long_term_memory, user_id)

\* a context built from the oldest eight exchanges
get_conversation_context_oldest(user_id) ==
    IF Get(conversations, user_id, <<>>) = <<>> THEN <<>>
    ELSE LET recent_exchanges == FirstN(conversations[user_id], 8)
             patterns == get_user_patterns(user_id)
             conversation_summary == analyze_conversation_patterns(user_id)
         IN  <<"=== previous conversation ===">>
             \o Flatten([i \in 1..Len(recent_exchanges) |->
                            <<"#" \o ToString(i), recent_exchanges[i].user,
                              recent_exchanges[i].assistant>>])
             \o (IF patterns # <<>>
                 THEN <<"=== user patterns ===">> \o patterns ELSE <<>>)
             \o (IF conversation_summary # <<>>
                 THEN <<"=== conversation analysis ===">> \o conversation_summary
                 ELSE <<>>)
             \o <<"=== enhanced instructions ===", InstructionSuffix,
                  "=== new message ===">>

\* get_conversation_context(user_id) with self.conversations = convs and
\* self.long_term_memory = ltm
get_conversation_context_in(convs, ltm, user_id) ==
    IF Get(convs, user_id, <<>>) = <<>> THEN <<>>
    ELSE LET recent_exchanges == LastN(convs[user_id], 8)
             patterns == get_user_patterns_in(ltm, user_id)
             conversation_summary ==
                 analyze_conversation_patterns_in(convs, ltm, user_id)
         IN  <<"=== previous conversation ===">>
             \o Flatten([i \in 1..Len(recent_exchanges) |->
                            <<"#" \o ToString(i), recent_exchanges[i].user,
                              recent_exchanges[i].assistant>>])
             \o (IF patterns # <<>>
                 THEN <<"=== user patterns ===">> \o patterns ELSE <<>>)
             \o (IF conversation_summary # <<>>
                 THEN <<"=== conversation analysis ===">> \o conversation_summary
                 ELSE <<>>)
             \o <<"=== enhanced instructions ===", InstructionSuffix,
                  "=== new message ===">>

\* get_conversation_context(user_id)
get_conversation_context(user_id) ==
    get_conversation_context_in(conversations, long_term_memory, user_id)

----------------------------------------------------------------------------
(* AI Provider Gateway: MultiAIClient *)

\* What a provider call does: it returns a content (text) or raises an error
\* whose message is text.
Returned(content) == [text |-> content, raises |-> FALSE]
Raised(message) == [text |-> message, raises |-> TRUE]

\* Contents a provider returns: nothing (None / ""), white space only, a text
\* with surrounding white space, a plain text.   "jawab zain" = جواب زين
Contents == {"", " ", " jawab zain ", "jawab zain"}

\* Error messages a provider call raises.
ErrorMessages ==
    {"Error code: 402", "Insufficient credits", "Payment Required",
     "Connection timed out"}

ProviderOutcomes ==
    {Returned(c) : c \in Contents} \cup {Raised(e) : e \in ErrorMessages}

\* text[i], as a text of one character
Char(text, i) == SubSeq(text, i, i)

\* the white space that strip() removes
Whitespace == {" ", "\n", "\t"}

\* text.strip()
RECURSIVE Strip(_)
Strip(text) ==
    IF text = "" THEN ""
    ELSE IF Char(text, 1) \in Whitespace THEN Strip(SubSeq(text, 2, Len(text)))
    ELSE IF Char(text, Len(text)) \in Whitespace
    THEN Strip(SubSeq(text, 1, Len(text) - 1))
    ELSE text

\* the truth value of a Python string
Truthy(text) == text # ""

\* "402" in str(e) or "credit" in str(e).lower() or "payment" in str(e).lower()
IsQuotaError(message) ==
    \/ Contains(message, "402")
    \/ Contains(message, "credit")
    \/ Contains(message, "payment")

\* Python values returned by the gateway operations
PyStr(s) == [val |-> s, type |-> "str"]
PyBool(b) == [val |-> b, type |-> "bool"]
PyTuple(t) == [val |-> t, type |-> "tuple"]
PyDict(d) == [val |-> d, type |-> "dict"]

\* one request to a provider: which one, with which instruction and which
\* user text
Gpt5Call(instruction, text) ==
    [text |-> text, instruction |-> instruction, provider |-> "gpt5"]
GeminiCall(instruction, text) ==
    [text |-> text, instruction |-> instruction, provider |-> "gemini"]

\* the outcome of an operation: the value returned (or raised = TRUE when an
\* exception leaves the operation) and the provider calls made, in order
Return(value, calls) == [value |-> value, calls |-> calls, raised |-> FALSE]

\* the four hardcoded replies at the end of _fallback_to_gemini
\*   "sayarat" = سيارات, "sayara" = سيارة; "ikhtibar" = اختبار,
\*   "istitla" = استطلاع, "sual" = سؤال, "istifta" = استفتاء,
\*   "imtihan" = امتحان; "musaada" = مساعدة, "shlon" = شلون, "kaif" = كيف,
\*   "wain" = وين, "ariid" = اريد, "mumkin" = ممكن
HardcodedFallback(user_message) ==
    IF TextContains(user_message, "sayarat")
       \/ TextContains(user_message, "sayara")
    THEN "hardcoded reply: cars"
    ELSE IF TextAnyIn(user_message,
                      {"ikhtibar", "istitla", "sual", "istifta", "imtihan"})
    THEN "hardcoded reply: quiz and poll commands"
    ELSE IF TextAnyIn(user_message,
                  {"musaada", "shlon", "kaif", "wain", "ariid", "mumkin"})
    THEN "hardcoded reply: help commands"
    ELSE "hardcoded reply: temporary error"

HardcodedReplies ==
    {"hardcoded reply: cars", "hardcoded reply: quiz and poll commands",
     "hardcoded reply: help commands", "hardcoded reply: temporary error"}

\* the reply of generate_response to a primary error that is not a quota error
\* (معذرة، صار خطأ وقت معالجة طلبك. جرب مرة ثانية باجر.)
ProcessingApology == "apology: error while processing your request"

\* _fallback_to_gemini(user_message); secondary is what the Gemini call does
\* when it is made
_fallback_to_gemini(user_message, secondary) ==
    IF gemini_client
    THEN LET call == GeminiCall("gemini_instruction", user_message)
         IN  IF ~secondary.raises /\ Truthy(secondary.text)
             THEN Return(PyStr(Strip(secondary.text)), <<call>>)
             ELSE Return(PyStr(HardcodedFallback(user_message)), <<call>>)
    ELSE Return(PyStr(HardcodedFallback(user_message)), <<>>)

\* a test that recognises the status code only
FallbackOnError_only402(message) == Contains(message, "402")

\* the test that sends a primary error to the fallback
FallbackOnError(message) == IsQuotaError(message)

\* a gateway that sends every primary error to the fallback
generate_response_anyError(user_message, primary, secondary) ==
    LET call == Gpt5Call("system_instruction", user_message)
        fb == _fallback_to_gemini(user_message, secondary)
    IN  IF ~primary.raises /\ Truthy(primary.text)
        THEN Return(PyStr(Strip(primary.text)), <<call>>)
        ELSE Return(fb.value, <<call>> \o fb.calls)

\* generate_response(user_message); primary / secondary are what the two
\* provider calls do when they are made
generate_response(user_message, primary, secondary) ==
    LET call == Gpt5Call("system_instruction", user_message)
        fb == _fallback_to_gemini(user_message, secondary)
    IN  IF ~primary.raises
        THEN IF Truthy(primary.text)
             THEN Return(PyStr(Strip(primary.text)), <<call>>)
             ELSE Return(fb.value, <<call>> \o fb.calls)
        ELSE IF FallbackOnError(primary.text)
             THEN Return(fb.value, <<call>> \o fb.calls)
             ELSE Return(PyStr(ProcessingApology), <<call>>)

\* The backtick cannot be written in a string of this module: the
\* apostrophe stands for it.
Backtick == "'"

\* the characters of text, and the text of a sequence of characters
Chars(text) == [i \in 1..Len(text) |-> Char(text, i)]

RECURSIVE Join(_)
Join(chars) == IF chars = <<>> THEN "" ELSE Head(chars) \o Join(Tail(chars))

\* text.count(ch)
Count(chars, ch) == Cardinality({i \in 1..Len(chars) : chars[i] = ch})

\* the characters at the positions of keep, in order
RECURSIVE KeepFrom(_, _, _)
KeepFrom(chars, keep, i) ==
    IF i > Len(chars) THEN <<>>
    ELSE (IF i \in keep THEN <<chars[i]>> ELSE <<>>) \o KeepFrom(chars, keep, i + 1)

\* re.sub of a run of two or more backticks by one backtick
CollapseBackticks(chars) ==
    KeepFrom(chars, {i \in 1..Len(chars) : ~(/\ i > 1
                                             /\ chars[i] = Backtick
                                             /\ chars[i - 1] = Backtick)}, 1)

\* text.rfind(ch), counted from 1; 0 when ch does not occur
RFind(chars, ch) ==
    LET at == {i \in 1..Len(chars) : chars[i] = ch}
    IN  IF at = {} THEN 0 ELSE CHOOSE i \in at : \A j \in at : j <= i

\* text[:i] + text[i+1:] for the character at position i
RemoveAt(chars, i) == SubSeq(chars, 1, i - 1) \o SubSeq(chars, i + 1, Len(chars))

\* a replace that removes the first occurrence only
RemoveAll_firstOnly(chars, ch) ==
    KeepFrom(chars, (1..Len(chars)) \ {CHOOSE i \in 1..Len(chars) : chars[i] = ch /\ \A j \in 1..(i - 1) : chars[j] # ch}, 1)

\* text.replace(ch, '')
RemoveAll(chars, ch) == SelectSeq(chars, LAMBDA c : c # ch)

\* the position of the ] that closes the [ at position i in a match of
\* \[([^\]]*)\]\([^\)]*$ ; 0 when the pattern does not match at i
LinkClose(chars, i) ==
    LET closes == {j \in (i + 1)..Len(chars) : chars[j] = "]"}
        j == IF closes = {} THEN 0
             ELSE CHOOSE k \in closes : \A l \in closes : k <= l
    IN  IF /\ chars[i] = "["
           /\ j # 0
           /\ j < Len(chars)
           /\ chars[j + 1] = "("
           /\ \A k \in (j + 2)..Len(chars) : chars[k] # ")"
        THEN j ELSE 0

\* re.sub(r'\[([^\]]*)\]\([^\)]*$', r'\1', text): the leftmost match runs
\* to the end of the text and is replaced by its label
FixBrokenLink(chars) ==
    LET starts == {i \in 1..Len(chars) : LinkClose(chars, i) # 0}
    IN  IF starts = {} THEN chars
        ELSE LET i == CHOOSE k \in starts : \A l \in starts : k <= l
             IN  SubSeq(chars, 1, i - 1) \o SubSeq(chars, i + 1, LinkClose(chars, i) - 1)

\* _clean_response_text(text)
_clean_response_text(text) ==
    IF text = "" THEN text
    ELSE LET collapsed == CollapseBackticks(Chars(text))
             ticks == IF Count(collapsed, Backtick) % 2 # 0
                      THEN RemoveAt(collapsed, RFind(collapsed, Backtick))
                      ELSE collapsed
             stars == IF Count(ticks, "*") % 2 # 0
                      THEN RemoveAll(ticks, "*") ELSE ticks
             unders == IF Count(stars, "_") % 2 # 0
                       THEN RemoveAll(stars, "_") ELSE stars
         IN  Strip(Join(FixBrokenLink(unders)))

\* the fixed replies of the vision chain
VisionEmptyApology == "apology: could not analyse the image"
GeminiVisionEmptyApology == "apology: could not analyse the image with Gemini"
GeminiVisionErrorApology == "apology: error while analysing the image with Gemini"
VisionFinalApology == "apology: could not analyse the image now"

\* _analyze_image_with_gemini(image_data, user_message)
_analyze_image_with_gemini(user_message, secondary) ==
    LET call == GeminiCall("gemini vision analysis_prompt", user_message)
    IN  IF secondary.raises
        THEN Return(PyStr(GeminiVisionErrorApology), <<call>>)
        ELSE IF Truthy(secondary.text)
        THEN Return(PyStr(_clean_response_text(Strip(secondary.text))), <<call>>)
        ELSE Return(PyStr(GeminiVisionEmptyApology), <<call>>)

\* analyze_image(image_data, user_message); primary is the vision call,
\* secondary the Gemini vision call, third the text-only request
analyze_image(user_message, primary, secondary, third) ==
    LET call == Gpt5Call("vision analysis_prompt", user_message)
        gem == _analyze_image_with_gemini(user_message, secondary)
        textcall == Gpt5Call("system_instruction",
                             <<"fallback_prompt", user_message>>)
    IN  IF ~primary.raises
        THEN IF Truthy(primary.text)
             THEN Return(PyStr(_clean_response_text(Strip(primary.text))),
                         <<call>>)
             ELSE IF gemini_client
                  THEN Return(gem.value, <<call>> \o gem.calls)
                  ELSE Return(PyStr(VisionEmptyApology), <<call>>)
        ELSE IF gemini_client
             THEN Return(gem.value, <<call>> \o gem.calls)
             ELSE IF ~third.raises /\ Truthy(third.text)
                  THEN Return(PyStr(Strip(third.text)), <<call, textcall>>)
                  ELSE Return(PyStr(VisionFinalApology), <<call, textcall>>)

\* translate_to_english(arabic_text)
translate_to_english(arabic_text, primary) ==
    LET call == Gpt5Call("translator ar-en", arabic_text)
    IN  IF primary.raises
        THEN Return(PyStr("Sorry, translation failed. Please try again."),
                    <<call>>)
        ELSE IF Truthy(primary.text)
        THEN Return(PyStr(Strip(primary.text)), <<call>>)
        ELSE Return(PyStr("Translation failed. Please try again."), <<call>>)

\* translate_to_arabic(english_text)
translate_to_arabic(english_text, primary) ==
    LET call == Gpt5Call("translator en-ar", english_text)
    IN  IF primary.raises
        THEN Return(PyStr("apology: translation failed"), <<call>>)
        ELSE IF Truthy(primary.text)
        THEN Return(PyStr(Strip(primary.text)), <<call>>)
        ELSE Return(PyStr("translation failed, try again"), <<call>>)

\* a generate_image that reports success without an image
generate_image_succeeds(prompt, image_path) == Return(PyBool(TRUE), <<>>)

\* generate_image(prompt, image_path): both paths return False before any
\* provider request is made; no file is written
generate_image(prompt, image_path) ==
    IF ~gemini_client
    THEN Return(PyBool(FALSE), <<>>)
    ELSE Return(PyBool(FALSE), <<>>)

\* Texts a provider returns to the creative-description request.
CreativeContents ==
    {"", "wasf bila alamat",
     "ENGLISH_PROMPT: a cat ARABIC_DESCRIPTION: bazzuna",
     "ENGLISH_PROMPT: ARABIC_DESCRIPTION:",
     "ENGLISH_PROMPT: a cat ARABIC_DESCRIPTION:",
     "ENGLISH_PROMPT: a cat"}

\* "ENGLISH_PROMPT:" in response and "ARABIC_DESCRIPTION:" in response
HasBothMarkers(response) ==
    response \in {"ENGLISH_PROMPT: a cat ARABIC_DESCRIPTION: bazzuna",
                  "ENGLISH_PROMPT: ARABIC_DESCRIPTION:",
                  "ENGLISH_PROMPT: a cat ARABIC_DESCRIPTION:"}

\* response.split("ARABIC_DESCRIPTION:")[0].replace("ENGLISH_PROMPT:", "").strip()
EnglishPart(response) ==
    CASE response = "ENGLISH_PROMPT: a cat ARABIC_DESCRIPTION: bazzuna" -> "a cat"
      [] response = "ENGLISH_PROMPT: a cat ARABIC_DESCRIPTION:" -> "a cat"
      [] OTHER -> ""

\* response.split("ARABIC_DESCRIPTION:")[1].strip()
ArabicPart(response) ==
    CASE response = "ENGLISH_PROMPT: a cat ARABIC_DESCRIPTION: bazzuna" -> "bazzuna"
      [] OTHER -> ""

\* _create_fallback_creative_description(description)
\* (arabic_description, english_prompt), both built around the description
_create_fallback_creative_description(description) ==
    PyTuple(<<"sura hilwa wa mufassala li " \o description
                 \o " bi-alwan zahiya",
              "A beautiful, high-quality artistic image of " \o description
                 \o ", professional photography">>)

\* _parse_creative_response(response, description)
_parse_creative_response(response, description) ==
    IF HasBothMarkers(response)
    THEN PyTuple(<<ArabicPart(response), EnglishPart(response)>>)
    ELSE _create_fallback_creative_description(description)

\* generate_creative_description(description); the Gemini branch refers to
\* the name `types`, which the module never imports, so it raises before any
\* request is made and ends in the templated pair
generate_creative_description(description, primary) ==
    LET call == Gpt5Call("creative", description)
    IN  IF ~primary.raises /\ Truthy(primary.text)
        THEN Return(_parse_creative_response(Strip(primary.text), description),
                    <<call>>)
        ELSE Return(_create_fallback_creative_description(description),
                    <<call>>)

\* analyze_with_tools(prompt, analysis_type)
analyze_with_tools(prompt, analysis_type, primary) ==
    LET call == Gpt5Call(<<"tools", analysis_type>>, prompt)
    IN  IF primary.raises
        THEN IF IsQuotaError(primary.text)
             THEN Return(PyStr("apology: credits insufficient for analysis"),
                         <<call>>)
             ELSE Return(PyStr("apology: error in advanced analysis"), <<call>>)
        ELSE IF Truthy(primary.text)
        THEN Return(PyStr(Strip(primary.text)), <<call>>)
        ELSE Return(PyStr("apology: could not do the advanced analysis"),
                    <<call>>)

\* generate_structured_response(prompt, response_type)
generate_structured_response(prompt, response_type, primary) ==
    LET call == Gpt5Call(<<"structured", response_type>>, prompt)
        Dict(ok, text) == PyDict([content |-> text, success |-> ok])
    IN  IF primary.raises
        THEN IF IsQuotaError(primary.text)
             THEN Return(Dict(FALSE, "apology: credits insufficient for structured reply"),
                         <<call>>)
             ELSE Return(Dict(FALSE, "error creating the structured reply"),
                         <<call>>)
        ELSE IF Truthy(primary.text)
        THEN Return(Dict(TRUE, Strip(primary.text)), <<call>>)
        ELSE Return(Dict(FALSE, "could not create the structured reply"),
                    <<call>>)

\* inputs and observation record of the gateway operations

\*   "marhaba" = مرحبا, "ariid sayara" = اريد سيارة, "sual" = سؤال,
\*   "mumkin" = ممكن
GatewayTexts == {"marhaba", "ariid sayara", "sual", "mumkin"}

CreativeOutcomes ==
    {Returned(c) : c \in CreativeContents} \cup {Raised(e) : e \in ErrorMessages}

NotCalled == Returned("")

NoOp == [user_message |-> <<>>, secondary |-> NotCalled,
         primary |-> NotCalled, third |-> NotCalled, op |-> "none",
         out |-> Return(PyStr(""), <<>>)]

----------------------------------------------------------------------------
(* Mode & Command Router: texts and tests                                  *)

\* A group chat has a negative id; the private chat of a user has the id of
\* the user.
Groups == {-1, -2}
ChatsOf(user_id) == Groups \cup {user_id}

\* text.lower()
Lower(text) ==
    CASE text = "Draw me bazzuna" -> "draw me bazzuna"
      [] text = "Forbidden: bot was blocked by the user" ->
            "forbidden: bot was blocked by the user"
      [] text = "Chat not found" -> "chat not found"
      [] text = "Timed out" -> "timed out"
      [] OTHER -> text

\*   "solef" = سولف, "solef ya bot" = سولف يا بوت, "tkallam" = تكلم,
\*   "rud" = رد, "faail al-bot" = فعل البوت
ActivationPhrases ==
    {"solef", "solef ya bot", "tkallam", "rud", "faail al-bot"}

\*   "enjeb" = انجب, "oskot" = اسكت, "enjeb ya bot" = انجب يا بوت,
\*   "la trud" = لا ترد, "attil al-bot" = عطل البوت, "twaqqaf" = توقف
DeactivationPhrases ==
    {"enjeb", "oskot", "enjeb ya bot", "la trud", "attil al-bot", "twaqqaf"}

\*   "ursum li" = ارسم لي, "isna sura" = اصنع صورة, "sawwi sura" = سوي صورة,
\*   "imal sura" = اعمل صورة, "anshi sura" = انشئ صورة,
\*   "ariid sura" = اريد صورة, "abi sura" = ابي صورة, "isnali" = اصنعلي,
\*   "sawwili sura" = سولي صورة, "ursum" = ارسم, "imal li" = اعمل لي,
\*   "sawwi li" = سوي لي, "isna li" = اصنع لي
image_request_keywords ==
    {"ursum li", "isna sura", "sawwi sura", "imal sura", "anshi sura",
     "ariid sura", "abi sura", "isnali", "sawwili sura", "ursum",
     "draw me", "create image", "make image", "generate image",
     "imal li", "sawwi li", "isna li"}

\*   "miza" = ميزة, "khassiya" = خاصية, "tamma idafat" = تم إضافة,
\*   "jadida mudafa" = جديدة مضافة, "lil-bot" = للبوت,
\*   "amthila ala al-istikhdam" = أمثلة على الاستخدام,
\*   "barmaja wa tatwir" = برمجة وتطوير, "al-awamir al-mawjuda" = الأوامر الموجودة
exclude_keywords ==
    {"miza", "khassiya", "tamma idafat", "jadida mudafa", "lil-bot",
     "amthila ala al-istikhdam", "barmaja wa tatwir", "al-awamir al-mawjuda",
     "feature", "added", "examples", "commands"}

\* _is_image_request(message)
_is_image_request(message) ==
    LET message_lower == Lower(message)
    IN  /\ ~AnyIn(message_lower, exclude_keywords)
        /\ AnyIn(message_lower, image_request_keywords)

\*   "ma gdart afham talabak zain" = ما كدرت افهم طلبك زين,
\*   "mumkin twaddihli akthar" = ممكن توضحلي اكثر, "kullish asif" = كلش أسف,
\*   "shlonak? kullish asif" = شلونك؟ كلش أسف,
\*   "ma fhamt shitriid" = ما فهمت شتريد
generic_indicators ==
    {"ma gdart afham talabak zain", "mumkin twaddihli akthar", "kullish asif",
     "shlonak? kullish asif", "ma fhamt shitriid"}

\*   معذرة، صار خطأ مؤقت في الاتصال بالذكاء الاصطناعي,
\*   جرب الأوامر التالية للحصول على تجربة ذكية كاملة
fallback_indicators ==
    {"apology: temporary error connecting to the AI",
     "try the following commands for the full smart experience"}

\* _is_generic_response(response)
_is_generic_response(response) ==
    \/ response = ""
    \/ Len(Strip(response)) < 10
    \/ AnyIn(response, generic_indicators \cup fallback_indicators)

error_patterns == {"Error:", "Exception:", "Traceback:", "None", "null", "undefined"}

\* _is_valid_response(response)
_is_valid_response(response) ==
    /\ response # ""
    /\ Len(Strip(response)) >= 5
    /\ ~AnyIn(response, error_patterns)

\* _get_helpful_fallback(user_message)
\*   "ariid" = اريد, "abi" = ابي, "talab" = طلب, "mumkin" = ممكن;
\*   "shlon" = شلون, "kaif" = كيف, "wain" = وين, "mata" = متى;
\*   "shno" = شنو, "matha" = ماذا, "aish" = ايش;
\*   "sayarat" = سيارات, "sayara" = سيارة
_get_helpful_fallback(user_message) ==
    LET user_lower == Lower(user_message)
    IN  IF AnyIn(user_lower, {"ariid", "abi", "talab", "mumkin"})
        THEN "helpful fallback: tell me what exactly you want"
        ELSE IF AnyIn(user_lower, {"shlon", "kaif", "wain", "mata"})
        THEN "helpful fallback: give me more details"
        ELSE IF AnyIn(user_lower, {"shno", "matha", "aish"})
        THEN "helpful fallback: what exactly do you want to know"
        ELSE IF AnyIn(user_lower, {"sayarat", "sayara"})
        THEN "helpful fallback: which cars"
        ELSE "helpful fallback: I can help with many things"

\* the reply of the chat turn to a response that fails validation
\* (معذرة، صار خطأ مؤقت. جرب مرة ثانية.)
TemporaryErrorReply == "apology: temporary error, try again"

\* the three prompts the chat turn builds around the user's message
\*   the retry prompt ends with ... مساعدة حقيقية ... 'هلا بيك' أو 'شلونك' ...
ChatPrompt(context_string, user_message) ==
    IF context_string # <<>>
    THEN context_string
         \o <<"the user says now:", user_message,
              "rely on the history above, reply in Iraqi dialect">>
    ELSE <<"the user says:", user_message,
           "reply usefully in Iraqi dialect">>

RetryPrompt(user_message) ==
    <<"the user says:", user_message,
      "reply in detail, give real musaada, do not open with shlonak">>

\* _generate_promotional_response builds this prompt
PromotionalPrompt(user_message) ==
    <<"the user asks for a promotional message:", user_message,
      "write a promotional message that lists the bot's features">>

\*   "risala" = رسالة, "tarwij" = ترويج, "ilan" = إعلان, "mustakhdim" = مستخدم
IsPromotionalRequest(user_message) ==
    /\ Contains(user_message, "risala")
    /\ \/ Contains(user_message, "tarwij")
       \/ Contains(user_message, "ilan")
       \/ Contains(user_message, "mustakhdim")

\* the body of the chat turn between the typing action and the reply:
\* p1/s1 are what the providers do in the first request, p2/s2 in the second
chat_response(context_string, user_message, p1, s1, p2, s2) ==
    LET enhanced_message == ChatPrompt(context_string, user_message)
        first == generate_response(enhanced_message, p1, s1)
        second == generate_response(
                      IF IsPromotionalRequest(user_message)
                      THEN PromotionalPrompt(user_message)
                      ELSE RetryPrompt(user_message), p2, s2)
    IN  IF ~_is_valid_response(first.value.val)
        THEN [response |-> TemporaryErrorReply, calls |-> first.calls,
              ops |-> <<"generate_response">>]
        ELSE IF _is_generic_response(first.value.val)
        THEN [response |->
                  IF IsPromotionalRequest(user_message)
                  THEN second.value.val
                  ELSE IF _is_generic_response(second.value.val)
                  THEN _get_helpful_fallback(user_message)
                  ELSE second.value.val,
              calls |-> first.calls \o second.calls,
              ops |-> <<"generate_response", "generate_response">>]
        ELSE [response |-> first.value.val, calls |-> first.calls,
              ops |-> <<"generate_response">>]

\* _create_creative_fallback(prompt_text)
\*   "tair al-anqa" = طائر العنقاء, "manzar tabii" = منظر طبيعي,
\*   "ghurub" = غروب
_create_creative_fallback(prompt_text) ==
    LET keywords == Lower(prompt_text)
    IN  IF Contains(keywords, "tair al-anqa") \/ Contains(keywords, "phoenix")
        THEN "Majestic phoenix bird in flight / phoenix description"
        ELSE IF Contains(keywords, "manzar tabii")
                \/ Contains(keywords, "ghurub")
        THEN "Beautiful natural landscape at sunset / landscape description"
        ELSE "Beautiful detailed " \o prompt_text
             \o ", high quality composition / description of " \o prompt_text

----------------------------------------------------------------------------
(* Mode & Command Router: Telegram calls                                   *)

\* The Telegram calls a handler makes are numbered 1, 2, 3, ... in the order
\* they are made; faults is the set of positions at which the call raises.
TelegramFaults == {{}, {1}, {2}, {2, 3}}

\* the Telegram methods the handlers call, with what is sent
reply_text(what) == <<"reply_text", what>>
edit_text(what) == <<"edit_text", what>>
reply_photo(what) == <<"reply_photo", what>>
delete(what) == <<"delete", what>>
send_chat_action(what) == <<"send_chat_action", what>>
get_file(what) == <<"get_file", what>>
download_as_bytearray(what) == <<"download_as_bytearray", what>>

\* name = <<method, what is sent>>
Call(name, faults, n) ==
    [call |-> name[1], ok |-> n \notin faults, what |-> name[2]]

\* The calls of a block made one after the other, the first at position
\* start: the block stops at the first call that raises.  done counts the
\* calls that returned.
Attempt(names, faults, start) ==
    LET fails == {i \in 1..Len(names) : (start + i - 1) \in faults}
        f == IF fails = {} THEN 0
             ELSE CHOOSE i \in fails : \A j \in fails : i <= j
        n == IF f = 0 THEN Len(names) ELSE f
    IN  [api |-> [i \in 1..n |-> Call(names[i], faults, start + i - 1)],
         done |-> IF f = 0 THEN Len(names) ELSE f - 1,
         failed |-> f # 0]

\* try: block / except Exception: reply_text(name)
WithExcept(block, name, faults) ==
    IF block.failed
    THEN LET reply == Call(name, faults, Len(block.api) + 1)
         IN  [api |-> block.api \o <<reply>>, done |-> block.done,
              failed |-> ~reply.ok]
    ELSE block

\* error_handler: runs when an exception leaves a handler; its own reply is
\* inside try / except
error_handler(block, faults) ==
    IF block.failed
    THEN block.api \o <<Call(reply_text("unexpected error"), faults,
                             Len(block.api) + 1)>>
    ELSE block.api

ProviderNames(calls) == [i \in 1..Len(calls) |-> calls[i].provider]

\* the record of one handled update
Update(handler, route, user_id, chat_id, text, block, ops, calls, response, faults) ==
    [text |-> text, response |-> response, user_id |-> user_id, ops |-> ops,
     api |-> error_handler(block, faults), handler |-> handler,
     route |-> route, chat_id |-> chat_id, escaped |-> block.failed,
     providers |-> ProviderNames(calls)]

NoUpdate ==
    [text |-> "", response |-> "", user_id |-> 0, ops |-> <<>>, api |-> <<>>,
     handler |-> "none", route |-> "none", chat_id |-> 0, escaped |-> FALSE,
     providers |-> <<>>]

----------------------------------------------------------------------------
(* Mode & Command Router: state helpers                                    *)

\* add_user(user_id): the set after the call (the file is rewritten)
add_user_never(user_id) == users

add_user(user_id) == users \cup {user_id}

\* set_group_status(chat_id, active)
set_group_status(chat_id, active) ==
    Put(group_status, ToString(chat_id), active)

\* a gate that is always open
is_group_active_always(chat_id) == TRUE

\* a gate that trusts the stored flag for every chat
is_group_active_storedOnly(chat_id) == Get(group_status, ToString(chat_id), TRUE)

\* is_group_active(chat_id)
is_group_active(chat_id) ==
    IF chat_id > 0 THEN TRUE
    ELSE Get(group_status, ToString(chat_id), TRUE)

\* _get_user_mode(user_id)
_get_user_mode(user_id) == Get(user_modes, user_id, "chat")

----------------------------------------------------------------------------
(* Mode & Command Router: command handlers                                 *)

\* start_command
start_command(user_id, chat_id, faults) ==
    LET block == Attempt(<<reply_text("welcome")>>, faults, 1)
    IN  /\ users' = add_user(user_id)
        /\ ev' = Update("start_command", "command", user_id, chat_id, "/start",
                        block, <<>>, <<>>, "", faults)
        /\ UNCHANGED <<group_status, user_modes, memvars, gwvars, bc, appvars>>

\* a help_command that puts the sender back into chat mode
help_command_resetsMode(user_id, chat_id, faults) ==
    LET block == Attempt(<<reply_text("help")>>, faults, 1)
    IN  /\ ev' = Update("help_command", "command", user_id, chat_id, "/help",
                        block, <<>>, <<>>, "", faults)
        /\ user_modes' = Put(user_modes, user_id, "chat")
        /\ UNCHANGED <<users, group_status, memvars, gwvars, bc, appvars>>

\* help_command
help_command(user_id, chat_id, faults) ==
    LET block == Attempt(<<reply_text("help")>>, faults, 1)
    IN  /\ ev' = Update("help_command", "command", user_id, chat_id, "/help",
                        block, <<>>, <<>>, "", faults)
        /\ UNCHANGED <<users, group_status, user_modes, memvars, gwvars, bc, appvars>>

\* clear_memory_command
clear_memory_command(user_id, chat_id, faults) ==
    LET has_history == /\ user_id \in DOMAIN conversations
                       /\ conversations[user_id] # <<>>
        block == Attempt(<<IF has_history
                           THEN reply_text("memory cleared")
                           ELSE reply_text("no memory to clear")>>, faults, 1)
    IN  /\ IF has_history
           THEN clear_conversation(user_id)
           ELSE UNCHANGED conversations
        /\ ev' = Update("clear_memory_command", "command", user_id, chat_id,
                        "/clear_memory", block, <<>>, <<>>, "", faults)
        /\ UNCHANGED <<long_term_memory, clock, last_add, users, group_status,
                       user_modes, gwvars, bc, appvars>>

\* an image_mode_command that does not look at the Gemini key
image_mode_command_noKeyCheck(user_id, chat_id, faults) ==
    LET block == Attempt(<<reply_text("image mode on")>>, faults, 1)
    IN  /\ user_modes' = Put(user_modes, user_id, "image")
        /\ ev' = Update("image_mode_command", "command", user_id, chat_id,
                        "/image", block, <<>>, <<>>, "", faults)
        /\ UNCHANGED <<users, group_status, memvars, gwvars, bc, appvars>>

\* image_mode_command: gemini_api_key is set exactly when gemini_client is
image_mode_command(user_id, chat_id, faults) ==
    LET block == Attempt(<<IF ~gemini_client
                           THEN reply_text("image mode unavailable")
                           ELSE reply_text("image mode on")>>, faults, 1)
    IN  /\ user_modes' = IF ~gemini_client
                         THEN user_modes
                         ELSE Put(user_modes, user_id, "image")
        /\ ev' = Update("image_mode_command", "command", user_id, chat_id,
                        "/image", block, <<>>, <<>>, "", faults)
        /\ UNCHANGED <<users, group_status, memvars, gwvars, bc, appvars>>

\* chat_mode_command
chat_mode_command(user_id, chat_id, faults) ==
    LET block == Attempt(<<reply_text("chat mode on")>>, faults, 1)
    IN  /\ user_modes' = Put(user_modes, user_id, "chat")
        /\ ev' = Update("chat_mode_command", "command", user_id, chat_id,
                        "/chat", block, <<>>, <<>>, "", faults)
        /\ UNCHANGED <<users, group_status, memvars, gwvars, bc, appvars>>

\* imagine_prompt_command
imagine_prompt_command(user_id, chat_id, faults) ==
    LET block == Attempt(<<reply_text("write the description")>>, faults, 1)
    IN  /\ user_modes' = Put(user_modes, user_id, "imagine_prompt")
        /\ ev' = Update("imagine_prompt_command", "command", user_id, chat_id,
                        "/imagine_prompt", block, <<>>, <<>>, "", faults)
        /\ UNCHANGED <<users, group_status, memvars, gwvars, bc, appvars>>

----------------------------------------------------------------------------
(* Mode & Command Router: message handlers                                 *)

\* What the providers do while the router runs.
\*   "jawab *zain mufassal" = جواب *زين مفصل (a usable answer with one
\*   asterisk), "jawab" (an answer shorter than 10 characters)
RouterContents == {"jawab *zain mufassal", "jawab"}

RouterPrimary ==
    {Returned(c) : c \in RouterContents} \cup {Raised("Error code: 402")}

RouterSecondary ==
    {Returned("jawab zain mufassal"), Raised("Connection timed out")}

\* the outcomes of the secondary that can matter after primary outcome p
SecondaryAfter(p) ==
    IF gemini_client /\ (IF p.raises THEN FallbackOnError(p.text)
                         ELSE ~Truthy(p.text))
    THEN RouterSecondary
    ELSE {NotCalled}

VisionPrimary == {Returned("jawab zain mufassal"), Raised("Connection timed out")}

CreativePrimary ==
    {Returned("ENGLISH_PROMPT: a cat ARABIC_DESCRIPTION: bazzuna"),
     Returned("wasf bila alamat"), Raised("Connection timed out")}

\* handle_photo
handle_photo(user_id, chat_id, faults) ==
    /\ users' = add_user(user_id)
    /\ UNCHANGED <<group_status, user_modes, memvars, gwvars, bc, appvars>>
    /\ IF ~is_group_active(chat_id)
       THEN ev' = Update("handle_photo", "dropped", user_id, chat_id, "",
                         Attempt(<<>>, faults, 1), <<>>, <<>>, "", faults)
       ELSE LET before == Attempt(<<reply_text("analysing the image"),
                                    get_file("largest size"),
                                    download_as_bytearray("largest size")>>,
                                  faults, 1)
            IN  IF before.failed
                THEN ev' = Update("handle_photo", "photo", user_id, chat_id, "",
                                  WithExcept(before, reply_text("image analysis error"),
                                             faults),
                                  <<>>, <<>>, "", faults)
                ELSE \E primary \in VisionPrimary :
                     \E secondary \in (IF gemini_client /\ primary.raises
                                       THEN RouterSecondary ELSE {NotCalled}) :
                     \E third \in (IF ~gemini_client /\ primary.raises
                                   THEN VisionPrimary ELSE {NotCalled}) :
                        LET analysis == analyze_image("", primary, secondary, third)
                            reply == Attempt(<<reply_text("image description")>>,
                                             faults, 4)
                            block == [api |-> before.api \o reply.api,
                                      done |-> 3 + reply.done,
                                      failed |-> reply.failed]
                        IN  ev' = Update("handle_photo", "photo", user_id,
                                         chat_id, "",
                                         WithExcept(block,
                                                    reply_text("image analysis error"),
                                                    faults),
                                         <<"analyze_image">>, analysis.calls,
                                         analysis.value.val, faults)

\* _handle_image_request
_handle_image_request(user_id, chat_id, user_message, faults, route) ==
    LET image == generate_image(user_message, "images/generated.jpg")
        names == <<send_chat_action("upload_photo"),
                   reply_text("making the image")>>
                 \o (IF image.value.val
                     THEN <<reply_photo("the image"), delete("making the image")>>
                     ELSE IF ~gemini_client
                     THEN <<edit_text("images need the Gemini key")>>
                     ELSE <<edit_text("could not make the image")>>)
        block == Attempt(names, faults, 1)
    IN  ev' = Update("handle_message", route, user_id, chat_id, user_message,
                     WithExcept(block, reply_text("image error"), faults),
                     IF block.done >= 2 THEN <<"generate_image">> ELSE <<>>,
                     image.calls, "", faults)

\* the mode after _handle_imagine_prompt_input when the reset on entry is
\* missing
imagine_prompt_mode_after_onErrorOnly(user_id, failed) ==
    IF failed THEN Put(user_modes, user_id, "chat") ELSE user_modes

\* the mode after _handle_imagine_prompt_input: reset on entry, and once more
\* in the except clause
imagine_prompt_mode_after(user_id, failed) ==
    LET on_entry == Put(user_modes, user_id, "chat")
    IN  IF failed THEN Put(on_entry, user_id, "chat") ELSE on_entry

\* _handle_imagine_prompt_input
_handle_imagine_prompt_input(user_id, chat_id, user_message, faults) ==
    LET block == Attempt(<<send_chat_action("typing"),
                           reply_text("english prompt (Markdown)")>>, faults, 1)
        guarded == WithExcept(block, reply_text("creative description error"),
                              faults)
    IN  /\ user_modes' = imagine_prompt_mode_after(user_id, block.failed)
        /\ IF block.done = 0
           THEN ev' = Update("handle_message", "imagine_prompt", user_id,
                             chat_id, user_message, guarded, <<>>, <<>>, "",
                             faults)
           ELSE \E primary \in CreativePrimary, timed_out \in BOOLEAN :
                   LET creative == generate_creative_description(user_message,
                                                                 primary)
                       english_prompt == creative.value.val[2]
                       \* the reply wraps the prompt in 30 more characters
                       response ==
                           IF timed_out \/ 30 + Len(english_prompt) < 50
                           THEN _create_creative_fallback(user_message)
                           ELSE english_prompt
                   IN  ev' = Update("handle_message", "imagine_prompt", user_id,
                                    chat_id, user_message, guarded,
                                    <<"generate_creative_description">>,
                                    creative.calls, response, faults)

\*   "shlonak" = شلونك; "Draw me bazzuna" asks for an image
RouterTexts == {"solef", "enjeb", "Draw me bazzuna", "shlonak"}

\* the texts a chat turn can end with, and the cleaned form of each
ChatReplies ==
    {Strip(o.text) : o \in {p \in RouterPrimary \cup RouterSecondary : ~p.raises}}
    \cup HardcodedReplies \cup {ProcessingApology, TemporaryErrorReply}
    \cup {_get_helpful_fallback(m) : m \in RouterTexts}

CleanedReplies == [response \in ChatReplies |-> _clean_response_text(response)]

\* a chat turn that saves the exchange before it replies
save_exchange_beforeReply(user_id, user_message, response, block) ==
    add_message_to_conversation(user_id, user_message, response)

\* the end of the chat turn: add_message_to_conversation comes after
\* reply_text in the try block, so it runs only when the reply was sent; it
\* is given response, not cleaned_response
save_exchange(user_id, user_message, response, block) ==
    IF block.failed
    THEN UNCHANGED memvars
    ELSE add_message_to_conversation(user_id, user_message, response)

\* the chat turn of handle_message: typing action, context, request(s),
\* validation, reply, record
chat_turn(user_id, chat_id, user_message, faults) ==
    /\ clock < max_messages_per_user + 1 + MaxChatTurns
    /\ IF 1 \in faults
       THEN \* send_chat_action is outside the try block
            /\ ev' = Update("handle_message", "chat", user_id, chat_id,
                            user_message,
                            Attempt(<<send_chat_action("typing")>>, faults, 1),
                            <<>>, <<>>, "", faults)
            /\ UNCHANGED memvars
       ELSE \E p1 \in RouterPrimary : \E s1 \in SecondaryAfter(p1) :
            LET first == generate_response(
                            ChatPrompt(get_conversation_context(user_id),
                                       user_message), p1, s1).value.val
                again == _is_valid_response(first) /\ _is_generic_response(first)
            IN  \E p2 \in (IF again THEN RouterPrimary ELSE {NotCalled}) :
                \E s2 \in (IF again THEN SecondaryAfter(p2) ELSE {NotCalled}) :
                LET turn == chat_response(get_conversation_context(user_id),
                                          user_message, p1, s1, p2, s2)
                    cleaned_response == CleanedReplies[turn.response]
                    block == Attempt(<<send_chat_action("typing"),
                                       reply_text(cleaned_response)>>,
                                     faults, 1)
                IN  /\ save_exchange(user_id, user_message, turn.response,
                                     block)
                    /\ ev' = Update("handle_message", "chat", user_id, chat_id,
                                    user_message,
                                    WithExcept(block, reply_text("chat error"),
                                               faults),
                                    turn.ops, turn.calls, turn.response, faults)

\* handle_message
handle_message(user_id, chat_id, user_message, faults) ==
    /\ users' = add_user(user_id)
    /\ UNCHANGED <<gwvars, bc, appvars>>
    /\ IF Lower(Strip(user_message)) \in ActivationPhrases
       THEN /\ group_status' = IF chat_id < 0
                               THEN set_group_status(chat_id, TRUE)
                               ELSE group_status
            /\ ev' = Update("handle_message",
                            IF chat_id < 0 THEN "activate" ELSE "groups_only",
                            user_id, chat_id, user_message,
                            Attempt(<<IF chat_id < 0
                                      THEN reply_text("bot is active")
                                      ELSE reply_text("groups only")>>,
                                    faults, 1),
                            <<>>, <<>>, "", faults)
            /\ UNCHANGED <<user_modes, memvars>>
       ELSE IF Lower(Strip(user_message)) \in DeactivationPhrases
       THEN /\ group_status' = IF chat_id < 0
                               THEN set_group_status(chat_id, FALSE)
                               ELSE group_status
            /\ ev' = Update("handle_message",
                            IF chat_id < 0 THEN "deactivate" ELSE "groups_only",
                            user_id, chat_id, user_message,
                            Attempt(<<IF chat_id < 0
                                      THEN reply_text("bot is silent")
                                      ELSE reply_text("groups only")>>,
                                    faults, 1),
                            <<>>, <<>>, "", faults)
            /\ UNCHANGED <<user_modes, memvars>>
       ELSE IF ~is_group_active(chat_id)
       THEN /\ ev' = Update("handle_message", "dropped", user_id, chat_id,
                            user_message, Attempt(<<>>, faults, 1),
                            <<>>, <<>>, "", faults)
            /\ UNCHANGED <<group_status, user_modes, memvars>>
       ELSE /\ UNCHANGED group_status
            /\ IF _get_user_mode(user_id) = "image"
               THEN /\ _handle_image_request(user_id, chat_id, user_message,
                                             faults, "image")
                    /\ UNCHANGED <<user_modes, memvars>>
               ELSE IF _get_user_mode(user_id) = "imagine_prompt"
               THEN /\ _handle_imagine_prompt_input(user_id, chat_id,
                                                    user_message, faults)
                    /\ UNCHANGED memvars
               ELSE IF _is_image_request(user_message)
               THEN /\ _handle_image_request(user_id, chat_id, user_message,
                                             faults, "image_request")
                    /\ UNCHANGED <<user_modes, memvars>>
               ELSE /\ chat_turn(user_id, chat_id, user_message, faults)
                    /\ UNCHANGED user_modes

----------------------------------------------------------------------------
(* Broadcast Dispatcher                                                    *)

\* self.ADMIN_IDS holds one id of ten digits; 7 stands for it
ADMIN_IDS == {7}

\* is_admin(user_id)
is_admin(user_id) == user_id \in ADMIN_IDS

\* who issues the admin commands: the admin and an ordinary user
Callers == ADMIN_IDS \cup {2}

\* What send_message does for one recipient: it returns, or raises an error
\* with one of these messages.
SendErrors ==
    {"Forbidden: bot was blocked by the user", "Chat not found", "Timed out"}

SendOutcomes == {Returned("")} \cup {Raised(e) : e \in SendErrors}

\* a test that removes the recipient after every error
RemovesUser_anyError(message) == TRUE

\* "bot was blocked" in str(e).lower() or "chat not found" in str(e).lower()
RemovesUser(message) ==
    \/ Contains(Lower(message), "bot was blocked")
    \/ Contains(Lower(message), "chat not found")

\* the locals of a pass: the set, the three counters, and what was done for
\* each entry, in order
StartOfPass ==
    [users |-> users, sent_count |-> 0, failed_count |-> 0,
     not_found_count |-> 0, log |-> <<>>]

Entry(user_id, event, error) ==
    [event |-> event, error |-> error, target |-> user_id]

\* the body of the loop of send_broadcast for one recipient
broadcast_step(st, user_id, outcome) ==
    IF ~outcome.raises
    THEN [st EXCEPT !.sent_count = @ + 1,
                    !.log = Append(@, Entry(user_id, "sent", ""))]
    ELSE [st EXCEPT !.failed_count = @ + 1,
                    !.users = IF RemovesUser(outcome.text)
                              THEN @ \ {user_id} ELSE @,
                    !.log = Append(@, Entry(user_id, "failed", outcome.text))]

\* a loop body that skips every entry after the first failure
targeted_step_stopsAfterFailure(st, user_id, outcome) ==
    IF st.failed_count > 0
    THEN [st EXCEPT !.log = Append(@, Entry(user_id, "skipped", ""))]
    ELSE IF user_id \notin st.users
    THEN [st EXCEPT !.not_found_count = @ + 1,
                    !.log = Append(@, Entry(user_id, "not_found", ""))]
    ELSE broadcast_step(st, user_id, outcome)

\* the body of the loop of send_targeted_broadcast for one entry of the list
targeted_step(st, user_id, outcome) ==
    IF user_id \notin st.users
    THEN [st EXCEPT !.not_found_count = @ + 1,
                    !.log = Append(@, Entry(user_id, "not_found", ""))]
    ELSE broadcast_step(st, user_id, outcome)

\* for user_id in targets: ... with outcomes[i] what send_message does for
\* the i-th entry if it is called
RECURSIVE RunPass(_, _, _, _, _)
RunPass(targeted, targets, outcomes, i, st) ==
    IF i > Len(targets) THEN st
    ELSE RunPass(targeted, targets, outcomes, i + 1,
                 IF targeted
                 THEN targeted_step(st, targets[i], outcomes[i])
                 ELSE broadcast_step(st, targets[i], outcomes[i]))

\* the record of one pass; writes lists the writes of the users file, each
\* with the number of entries handled before it and the set written
Pass(op, targets, outcomes, st, edited) ==
    [writes |-> <<[content |-> st.users, entries_done |-> Len(st.log)]>>,
     before |-> users, op |-> op,
     sent_count |-> st.sent_count, failed_count |-> st.failed_count,
     not_found_count |-> st.not_found_count, log |-> st.log,
     targets |-> targets,
     outcomes |-> [i \in 1..Len(targets) |->
                      IF st.log[i].event = "not_found"
                      THEN NotCalled ELSE outcomes[i]],
     started |-> TRUE, after |-> st.users, result_sent |-> edited]

NotStarted(op, reply) ==
    [writes |-> <<>>, before |-> users, op |-> op,
     sent_count |-> 0, failed_count |-> 0, not_found_count |-> 0,
     log |-> <<>>, targets |-> <<>>, outcomes |-> <<>>, started |-> FALSE,
     after |-> users, result_sent |-> reply]

NoBroadcast == NotStarted("none", FALSE)

\* the orders in which a set can be iterated
Orders(S) ==
    {seq \in [1..Cardinality(S) -> S] :
        \A i, j \in 1..Cardinality(S) : i # j => seq[i] # seq[j]}

\* send_broadcast: status message, one send per known user, save, result
send_broadcast(status_ok) ==
    IF ~status_ok
    THEN /\ bc' = NotStarted("send_broadcast", FALSE)
         /\ UNCHANGED users
    ELSE \E targets \in Orders(users), edit_ok \in BOOLEAN :
         \E outcomes \in [1..Len(targets) -> SendOutcomes] :
            LET st == RunPass(FALSE, targets, outcomes, 1, StartOfPass)
            IN  /\ users' = st.users
                /\ bc' = Pass("send_broadcast", targets, outcomes, st, edit_ok)

\* send_targeted_broadcast
send_targeted_broadcast(target_user_ids, status_ok) ==
    IF ~status_ok
    THEN /\ bc' = NotStarted("send_targeted_broadcast", FALSE)
         /\ UNCHANGED users
    ELSE \E edit_ok \in BOOLEAN :
         \E outcomes \in [1..Len(target_user_ids) -> SendOutcomes] :
            LET st == RunPass(TRUE, target_user_ids, outcomes, 1, StartOfPass)
            IN  /\ users' = st.users
                /\ bc' = Pass("send_targeted_broadcast", target_user_ids,
                              outcomes, st, edit_ok)

\* broadcast_command; has_text: the command came with a message
broadcast_command(caller, has_text, status_ok) ==
    /\ UNCHANGED <<memvars, gwvars, group_status, user_modes, ev, appvars>>
    /\ IF ~is_admin(caller)
       THEN bc' = NotStarted("broadcast_command: not authorised", status_ok)
            /\ UNCHANGED users
       ELSE IF ~has_text
       THEN bc' = NotStarted("broadcast_command: usage", status_ok)
            /\ UNCHANGED users
       ELSE send_broadcast(status_ok)

\* the pieces of the first argument of /broadcast_to between the commas
\* (context.args is split on white space, so a piece holds none)
IdPieces == {"1", "2", "", "x"}

\* int(uid_str) on a stripped piece; 0 stands for ValueError
ParseId(uid_str) ==
    CASE uid_str = "1" -> 1
      [] uid_str = "2" -> 2
      [] OTHER -> 0

\* uid_str.strip()
StripPiece(uid_str) == Strip(uid_str)

\* the list built by the parsing loop of broadcast_to_command
RECURSIVE ParseIds(_)
ParseIds(pieces) ==
    IF pieces = <<>> THEN <<>>
    ELSE IF StripPiece(Head(pieces)) = ""
    THEN ParseIds(Tail(pieces))
    ELSE <<ParseId(StripPiece(Head(pieces)))>> \o ParseIds(Tail(pieces))

\* broadcast_to_command; pieces = <<>> stands for a command with fewer than
\* two arguments
broadcast_to_command(caller, pieces, status_ok) ==
    /\ UNCHANGED <<memvars, gwvars, group_status, user_modes, ev, appvars>>
    /\ IF ~is_admin(caller)
       THEN bc' = NotStarted("broadcast_to_command: not authorised", status_ok)
            /\ UNCHANGED users
       ELSE IF pieces = <<>>
       THEN bc' = NotStarted("broadcast_to_command: usage", status_ok)
            /\ UNCHANGED users
       ELSE IF \E i \in 1..Len(pieces) :
                  StripPiece(pieces[i]) # "" /\ ParseId(StripPiece(pieces[i])) = 0
       THEN bc' = NotStarted("broadcast_to_command: bad ids", status_ok)
            /\ UNCHANGED users
       ELSE IF ParseIds(pieces) = <<>>
       THEN bc' = NotStarted("broadcast_to_command: no ids", status_ok)
            /\ UNCHANGED users
       ELSE send_targeted_broadcast(ParseIds(pieces), status_ok)

----------------------------------------------------------------------------
(* The application: the update queue and the handlers it starts            *)

\* Application.builder().token(telegram_token).build() leaves
\* concurrent_updates at its default, and the handlers are added with the
\* default block: the fetcher awaits the handler of one update before it
\* takes the next update from the queue.
concurrent_updates_on == TRUE

concurrent_updates == FALSE

\* the handlers that have not returned
Running == {i \in 1..Len(tasks) : tasks[i].at # "done"}

\* a text message arrives
receive_update(user_id, user_message) ==
    /\ Len(update_queue) + Len(tasks) < MaxUpdates
    /\ update_queue' = Append(update_queue, <<user_id, user_message>>)
    /\ UNCHANGED <<memvars, gwvars, routervars, bc, tasks>>

\* the fetcher takes the next update; handle_message runs up to its first
\* await: the sender is registered and the typing action is requested
fetch_update ==
    /\ update_queue # <<>>
    /\ concurrent_updates \/ Running = {}
    /\ update_queue' = Tail(update_queue)
    /\ tasks' = Append(tasks, [text |-> Head(update_queue)[2], response |-> "",
                               user_id |-> Head(update_queue)[1],
                               at |-> "typing", context |-> <<>>])
    /\ users' = add_user(Head(update_queue)[1])
    /\ UNCHANGED <<memvars, gwvars, group_status, user_modes, ev, bc>>

\* send_chat_action returned: the context is built from the conversations as
\* they are now and the request is sent; or it raised and the handler ends
build_context(i, sent) ==
    /\ tasks[i].at = "typing"
    /\ tasks' = [tasks EXCEPT ![i] =
                    IF sent
                    THEN [@ EXCEPT !.at = "gateway",
                                   !.context = get_conversation_context(tasks[i].user_id)]
                    ELSE [@ EXCEPT !.at = "done"]]
    /\ UNCHANGED <<memvars, gwvars, routervars, bc, update_queue>>

\* the gateway returned (after a second request when the first answer was
\* generic): the response is validated, cleaned and sent
receive_response(i, p1, s1, p2, s2) ==
    /\ tasks[i].at = "gateway"
    /\ tasks' = [tasks EXCEPT ![i] =
                    [@ EXCEPT !.at = "reply",
                              !.response = chat_response(tasks[i].context,
                                                         tasks[i].text, p1, s1,
                                                         p2, s2).response]]
    /\ UNCHANGED <<memvars, gwvars, routervars, bc, update_queue>>

\* reply_text returned and the exchange is saved, or it raised and the
\* except clause answers instead
finish_turn(i, sent) ==
    /\ tasks[i].at = "reply"
    /\ tasks' = [tasks EXCEPT ![i] = [@ EXCEPT !.at = "done"]]
    /\ save_exchange(tasks[i].user_id, tasks[i].text, tasks[i].response,
                     Attempt(<<reply_text(_clean_response_text(tasks[i].response))>>,
                             IF sent THEN {} ELSE {1}, 1))
    /\ UNCHANGED <<gwvars, routervars, bc, update_queue>>

----------------------------------------------------------------------------
(* Administrative and enhanced-analysis commands                           *)

\* the reply to a caller who is not an admin
Refusal == reply_text("not authorised")

get_chat(what) == <<"get_chat", what>>

\* a handler that sends the replies names, one after the other, and does
\* nothing else
CommandReply(handler, text, user_id, chat_id, names, faults) ==
    /\ ev' = Update(handler, "command", user_id, chat_id, text,
                    Attempt(names, faults, 1), <<>>, <<>>, "", faults)
    /\ UNCHANGED <<users, group_status, user_modes, memvars, gwvars, bc, appvars>>

\* admin_command
admin_command(user_id, chat_id, faults) ==
    CommandReply("admin_command", "/admin", user_id, chat_id,
                 <<IF is_admin(user_id) THEN reply_text("admin panel")
                   ELSE Refusal>>, faults)

\* the replies that show a text file: chunks = 0 stands for a missing file
\* (FileNotFoundError), chunks = n for a file sent in n messages
FileReplies(chunks, what, fallback) ==
    IF chunks = 0 THEN <<reply_text(fallback)>>
    ELSE [i \in 1..chunks |-> reply_text(what)]

\* admin_commands_command
admin_commands_command(user_id, chat_id, faults, chunks) ==
    CommandReply("admin_commands_command", "/admin_commands", user_id, chat_id,
                 IF is_admin(user_id)
                 THEN FileReplies(chunks, "admin guide", "short admin guide")
                 ELSE <<Refusal>>, faults)

\* promo_messages_command
promo_messages_command(user_id, chat_id, faults, chunks) ==
    CommandReply("promo_messages_command", "/promo_messages", user_id, chat_id,
                 IF is_admin(user_id)
                 THEN FileReplies(chunks, "promotional templates",
                                  "no promotional templates file")
                 ELSE <<Refusal>>, faults)

\* stats_command
stats_command(user_id, chat_id, faults) ==
    CommandReply("stats_command", "/stats", user_id, chat_id,
                 <<IF is_admin(user_id) THEN reply_text("statistics")
                   ELSE Refusal>>, faults)

\* logs_command
logs_command(user_id, chat_id, faults) ==
    CommandReply("logs_command", "/logs", user_id, chat_id,
                 <<IF is_admin(user_id) THEN reply_text("system status")
                   ELSE Refusal>>, faults)

\* list_users_command: one get_chat for each known user (its failure is
\* swallowed), then the list in one message
list_users_command(user_id, chat_id, faults) ==
    IF ~is_admin(user_id)
    THEN CommandReply("list_users_command", "/list_users", user_id, chat_id,
                      <<Refusal>>, faults)
    ELSE IF users = {}
    THEN CommandReply("list_users_command", "/list_users", user_id, chat_id,
                      <<reply_text("no registered users")>>, faults)
    ELSE \E user_list \in Orders(users) :
            LET n == Len(user_list)
                lookups == [i \in 1..n |->
                               Call(get_chat(ToString(user_list[i])), faults, i)]
                reply == Call(reply_text("user list"), faults, n + 1)
                block == [api |-> lookups \o <<reply>>,
                          done |-> IF reply.ok THEN n + 1 ELSE n,
                          failed |-> ~reply.ok]
            IN  /\ ev' = Update("list_users_command", "command", user_id,
                                chat_id, "/list_users", block, <<>>, <<>>, "",
                                faults)
                /\ UNCHANGED <<users, group_status, user_modes, memvars,
                               gwvars, bc, appvars>>

\* add_users_command with each id added as soon as it is parsed: the ids in
\* front of a non-numeric piece are in the set when the hint goes out
RECURSIVE ParsedBeforeError(_)
ParsedBeforeError(pieces) ==
    IF pieces = <<>> THEN <<>>
    ELSE IF StripPiece(Head(pieces)) = ""
    THEN ParsedBeforeError(Tail(pieces))
    ELSE IF ParseId(StripPiece(Head(pieces))) = 0
    THEN <<>>
    ELSE <<ParseId(StripPiece(Head(pieces)))>> \o ParsedBeforeError(Tail(pieces))

add_users_command_addsAsParsed(user_id, chat_id, faults, pieces) ==
    IF ~is_admin(user_id)
    THEN CommandReply("add_users_command", "/add_users", user_id, chat_id,
                      <<Refusal>>, faults)
    ELSE IF pieces = <<>>
    THEN CommandReply("add_users_command", "/add_users", user_id, chat_id,
                      <<reply_text("usage")>>, faults)
    ELSE LET new_user_ids == ParsedBeforeError(pieces)
             bad == \E i \in 1..Len(pieces) :
                       /\ StripPiece(pieces[i]) # ""
                       /\ ParseId(StripPiece(pieces[i])) = 0
         IN  /\ users' = users \cup
                            {new_user_ids[i] : i \in 1..Len(new_user_ids)}
             /\ ev' = Update("add_users_command", "command", user_id, chat_id,
                             "/add_users",
                             Attempt(<<reply_text(IF bad THEN "bad ids"
                                                  ELSE "users updated")>>,
                                     faults, 1),
                             <<>>, <<>>, "", faults)
             /\ UNCHANGED <<group_status, user_modes, memvars, gwvars, bc, appvars>>

\* add_users_command; pieces = <<>> stands for a command without arguments
add_users_command(user_id, chat_id, faults, pieces) ==
    IF ~is_admin(user_id)
    THEN CommandReply("add_users_command", "/add_users", user_id, chat_id,
                      <<Refusal>>, faults)
    ELSE IF pieces = <<>>
    THEN CommandReply("add_users_command", "/add_users", user_id, chat_id,
                      <<reply_text("usage")>>, faults)
    ELSE IF \E i \in 1..Len(pieces) :
               StripPiece(pieces[i]) # "" /\ ParseId(StripPiece(pieces[i])) = 0
    THEN CommandReply("add_users_command", "/add_users", user_id, chat_id,
                      <<reply_text("bad ids")>>, faults)
    ELSE LET new_user_ids == ParseIds(pieces)
         IN  /\ users' = users \cup
                            {new_user_ids[i] : i \in 1..Len(new_user_ids)}
             /\ ev' = Update("add_users_command", "command", user_id, chat_id,
                             "/add_users",
                             Attempt(<<reply_text("users updated")>>, faults, 1),
                             <<>>, <<>>, "", faults)
             /\ UNCHANGED <<group_status, user_modes, memvars, gwvars, bc, appvars>>

\* what the provider does for an enhanced-analysis request
AnalysisPrimary == {Returned("jawab zain mufassal"), Raised("Error code: 402")}

\* gpt41_analyze_command; has_args: the command came with a text
gpt41_analyze_command(user_id, chat_id, faults, has_args, primary) ==
    /\ users' = add_user(user_id)
    /\ UNCHANGED <<group_status, user_modes, memvars, gwvars, bc, appvars>>
    /\ LET before == Attempt(<<reply_text(IF has_args THEN "analysing"
                                          ELSE "usage")>>, faults, 1)
       IN  IF ~has_args \/ before.failed
           THEN ev' = Update("gpt41_analyze_command", "command", user_id,
                             chat_id, "/gpt41_analyze", before, <<>>, <<>>, "",
                             faults)
           ELSE LET analysis == analyze_with_tools("marhaba",
                                                   "advanced_analysis", primary)
                    reply == Attempt(<<reply_text("analysis")>>, faults, 2)
                    block == [api |-> before.api \o reply.api,
                              done |-> 1 + reply.done,
                              failed |-> reply.failed]
                IN  ev' = Update("gpt41_analyze_command", "command", user_id,
                                 chat_id, "/gpt41_analyze",
                                 WithExcept(block, reply_text("analysis error"),
                                            faults),
                                 <<"analyze_with_tools">>, analysis.calls,
                                 analysis.value.val, faults)

\* gpt41_structured_command; has_args: a type and a prompt were given
gpt41_structured_command(user_id, chat_id, faults, has_args, primary) ==
    /\ users' = add_user(user_id)
    /\ UNCHANGED <<group_status, user_modes, memvars, gwvars, bc, appvars>>
    /\ LET before == Attempt(<<reply_text(IF has_args THEN "structuring"
                                          ELSE "usage")>>, faults, 1)
       IN  IF ~has_args \/ before.failed
           THEN ev' = Update("gpt41_structured_command", "command", user_id,
                             chat_id, "/gpt41_structured", before, <<>>, <<>>,
                             "", faults)
           ELSE LET structured_result ==
                        generate_structured_response("marhaba", "summary",
                                                     primary)
                    reply == Attempt(<<reply_text("structured reply")>>,
                                     faults, 2)
                    block == [api |-> before.api \o reply.api,
                              done |-> 1 + reply.done,
                              failed |-> reply.failed]
                IN  ev' = Update("gpt41_structured_command", "command",
                                 user_id, chat_id, "/gpt41_structured",
                                 WithExcept(block,
                                            reply_text("structured reply error"),
                                            faults),
                                 <<"generate_structured_response">>,
                                 structured_result.calls,
                                 structured_result.value.val.content, faults)

\* gpt41_features_command
gpt41_features_command(user_id, chat_id, faults) ==
    /\ users' = add_user(user_id)
    /\ ev' = Update("gpt41_features_command", "command", user_id, chat_id,
                    "/gpt41_features",
                    Attempt(<<reply_text("capabilities")>>, faults, 1),
                    <<>>, <<>>, "", faults)
    /\ UNCHANGED <<group_status, user_modes, memvars, gwvars, bc, appvars>>

----------------------------------------------------------------------------
(* Construction: BotHandlers.__init__ *)

NoAdd == [user_id |-> 0, exchange |-> [timestamp |-> 0, user |-> "", assistant |-> ""]]

\* An exchange written to conversations.json by an earlier run.
OldExchange(i) == [timestamp |-> i, user |-> "marhaba", assistant |-> "zain"]

\* The history file of a user who exchanged n >= 1 messages in earlier runs,
\* and the long-term record those n exchanges left behind.
LoadedHistory(n) ==
    [i \in 1..n |-> OldExchange(max_messages_per_user - n + i)]

LoadedMemory(n) ==
    [required_fields EXCEPT
        !.total_messages = n,
        !.communication_style = <<"uses short messages">>,
        !.conversation_themes = Put(EmptyDict, "aam", n)]

PreloadLens ==
    (max_messages_per_user - PreloadSlack) .. max_messages_per_user

\* BotHandlers.__init__ and MultiAIClient.__init__ with no files on disk
\* (load_users, load_group_status, load_conversations and
\* load_long_term_memory leave the maps empty; user_modes = {}); the Gemini
\* key is optional
Init ==
    /\ conversations = EmptyDict
    /\ long_term_memory = EmptyDict
    /\ clock = max_messages_per_user + 1
    /\ last_add = NoAdd
    /\ gemini_client \in BOOLEAN
    /\ gw = NoOp
    /\ users = {}
    /\ group_status = EmptyDict
    /\ user_modes = EmptyDict
    /\ ev = NoUpdate
    /\ bc = NoBroadcast
    /\ update_queue = <<>>
    /\ tasks = <<>>

\* the same with GEMINI_API_KEY set
InitWithGemini ==
    /\ conversations = EmptyDict
    /\ long_term_memory = EmptyDict
    /\ clock = max_messages_per_user + 1
    /\ last_add = NoAdd
    /\ gemini_client = TRUE
    /\ gw = NoOp
    /\ users = {}
    /\ group_status = EmptyDict
    /\ user_modes = EmptyDict
    /\ ev = NoUpdate
    /\ bc = NoBroadcast
    /\ update_queue = <<>>
    /\ tasks = <<>>

\* load_conversations / load_long_term_memory with the files of earlier runs:
\* each user is either unknown or comes with a nearly full history
InitLoaded ==
    /\ \E known \in SUBSET Users :
       \E len \in [known -> PreloadLens] :
          /\ conversations = [u \in known |-> LoadedHistory(len[u])]
          /\ long_term_memory = [u \in known |-> LoadedMemory(len[u])]
    /\ clock = max_messages_per_user + 1
    /\ last_add = NoAdd
    /\ gemini_client = TRUE
    /\ gw = NoOp
    /\ users = {}
    /\ group_status = EmptyDict
    /\ user_modes = EmptyDict
    /\ ev = NoUpdate
    /\ bc = NoBroadcast
    /\ update_queue = <<>>
    /\ tasks = <<>>

----------------------------------------------------------------------------
(* Specification of the exchange store: record_exchange / clear called for *)
(* any user with any texts.                                                *)

RecordExchange ==
    \E u \in Users, m \in Messages, r \in Responses :
        /\ clock < max_messages_per_user + 1 + MaxAdds
        /\ add_message_to_conversation(u, m, r)
        /\ UNCHANGED <<gwvars, routervars, bc, appvars>>

ClearConversation ==
    \E u \in Users :
        /\ clear_conversation(u)
        /\ UNCHANGED <<long_term_memory, clock, last_add, gwvars, routervars, bc, appvars>>

NextMemory == RecordExchange \/ ClearConversation

SpecMemory ==
    InitLoaded
    /\ [][NextMemory]_vars

----------------------------------------------------------------------------
(* C1: after any sequence of add_message_to_conversation calls every user's *)
(* stored exchange list has at most 100 entries, and an exchange added to a *)
(* list that already holds 100 drops exactly the oldest entry: the list     *)
(* becomes the old list without its first entry, followed by the new one.   *)
C1_BoundedFifo ==
    /\ \A u \in DOMAIN conversations :
          Len(conversations[u]) <= max_messages_per_user
    /\ [][ /\ \A u \in DOMAIN conversations' :
                Len(conversations'[u]) <= 100
           /\ last_add' # last_add =>
                LET u == last_add'.user_id
                    old == Get(conversations, u, <<>>)
                IN  /\ u \in DOMAIN conversations'
                    /\ conversations'[u] =
                          IF Len(old) = 100
                          THEN Append(Tail(old), last_add'.exchange)
                          ELSE Append(old, last_add'.exchange)
                    /\ \A v \in (DOMAIN conversations) \ {u} :
                          /\ v \in DOMAIN conversations'
                          /\ conversations'[v] = conversations[v] ]_vars

\* an exchange has just been added to a list that held 100 entries
C1_Witness ==
    /\ last_add.user_id \in DOMAIN conversations
    /\ Len(conversations[last_add.user_id]) = 100
    /\ conversations[last_add.user_id][100] = last_add.exchange
    /\ conversations[last_add.user_id][1].timestamp > 1

----------------------------------------------------------------------------
(* Specification of the gateway: each public operation is called with any  *)
(* text and any behaviour of the providers.                                *)

GwOp(op, user_message, primary, secondary, third, out) ==
    /\ gw' = [user_message |-> user_message, secondary |-> secondary,
              primary |-> primary, third |-> third, op |-> op, out |-> out]
    /\ UNCHANGED <<memvars, gemini_client, routervars, bc, appvars>>

GenerateResponse ==
    \E m \in GatewayTexts, p \in ProviderOutcomes, s \in ProviderOutcomes :
        GwOp("generate_response", <<m>>, p, s, NotCalled,
             generate_response(<<m>>, p, s))

AnalyzeImage ==
    \E m \in {"", "marhaba"}, p \in ProviderOutcomes, s \in ProviderOutcomes,
       t \in ProviderOutcomes :
        GwOp("analyze_image", m, p, s, t, analyze_image(m, p, s, t))

TranslateToEnglish ==
    \E m \in GatewayTexts, p \in ProviderOutcomes :
        GwOp("translate_to_english", m, p, NotCalled, NotCalled,
             translate_to_english(m, p))

TranslateToArabic ==
    \E m \in GatewayTexts, p \in ProviderOutcomes :
        GwOp("translate_to_arabic", m, p, NotCalled, NotCalled,
             translate_to_arabic(m, p))

GenerateImage ==
    \E m \in GatewayTexts :
        GwOp("generate_image", m, NotCalled, NotCalled, NotCalled,
             generate_image(m, "images/generated.jpg"))

GenerateCreativeDescription ==
    \E m \in GatewayTexts, p \in CreativeOutcomes :
        GwOp("generate_creative_description", m, p, NotCalled, NotCalled,
             generate_creative_description(m, p))

AnalyzeWithTools ==
    \E m \in GatewayTexts, p \in ProviderOutcomes :
        GwOp("analyze_with_tools", m, p, NotCalled, NotCalled,
             analyze_with_tools(m, "sentiment", p))

GenerateStructuredResponse ==
    \E m \in GatewayTexts, p \in ProviderOutcomes :
        GwOp("generate_structured_response", m, p, NotCalled, NotCalled,
             generate_structured_response(m, "summary", p))

NextGateway ==
    \/ GenerateResponse
    \/ AnalyzeImage
    \/ TranslateToEnglish
    \/ TranslateToArabic
    \/ GenerateImage
    \/ GenerateCreativeDescription
    \/ AnalyzeWithTools
    \/ GenerateStructuredResponse

SpecGateway ==
    Init /\ [][NextGateway]_vars

\* the primary error messages that report a quota / payment failure
QuotaMessages == {"Error code: 402", "Insufficient credits", "Payment Required"}

PrimaryQuotaError ==
    /\ gw.op = "generate_response"
    /\ gw.primary.raises
    /\ gw.primary.text \in QuotaMessages

PrimaryOtherError ==
    /\ gw.op = "generate_response"
    /\ gw.primary.raises
    /\ gw.primary.text \notin QuotaMessages

PrimaryEmpty ==
    /\ gw.op = "generate_response"
    /\ ~gw.primary.raises
    /\ gw.primary.text = ""

SecondaryFailed == gw.secondary.raises \/ gw.secondary.text = ""

SecondaryCalled ==
    \E i \in 1..Len(gw.out.calls) : gw.out.calls[i].provider = "gemini"

SecondaryCalledWithUserPrompt ==
    \E i \in 1..Len(gw.out.calls) :
        /\ gw.out.calls[i].provider = "gemini"
        /\ gw.out.calls[i].text = gw.user_message

(* C2 as stated: when the primary call of generate_response raises a       *)
(* quota/payment error, the secondary provider is invoked with the same    *)
(* user prompt and, if it yields non-empty text, that text is returned.    *)
C2_AsStated ==
    PrimaryQuotaError =>
        /\ SecondaryCalledWithUserPrompt
        /\ (~gw.secondary.raises /\ gw.secondary.text # "") =>
              gw.out.value = PyStr(gw.secondary.text)

(* C2 amended: when the primary call of generate_response raises a         *)
(* quota/payment error and the secondary provider is configured, the       *)
(* secondary is invoked after the primary with the same user prompt and,   *)
(* if it yields non-empty text, generate_response returns that text with   *)
(* the surrounding white space stripped; when the secondary provider is    *)
(* not configured it is not invoked and a hardcoded reply is returned.     *)
C2_QuotaFallback ==
    PrimaryQuotaError =>
        /\ ~gw.out.raised
        /\ gemini_client =>
              /\ Len(gw.out.calls) = 2
              /\ gw.out.calls[1].provider = "gpt5"
              /\ gw.out.calls[2].provider = "gemini"
              /\ gw.out.calls[2].text = gw.user_message
              /\ (~gw.secondary.raises /\ gw.secondary.text # "") =>
                    /\ gw.out.value = PyStr(Strip(gw.secondary.text))
                    /\ gw.out.value.val # ProcessingApology
                    /\ gw.out.value.val \notin HardcodedReplies
                    /\ gw.out.value.val # gw.primary.text
        /\ ~gemini_client =>
              /\ ~SecondaryCalled
              /\ gw.out.value.val \in HardcodedReplies

\* a quota error was answered by the text of the configured secondary
C2_Witness ==
    /\ PrimaryQuotaError
    /\ gemini_client
    /\ gw.secondary = Returned(" jawab zain ")
    /\ gw.out.value = PyStr("jawab zain")

DeclaredType(op) ==
    CASE op = "generate_image" -> "bool"
      [] op = "generate_creative_description" -> "tuple"
      [] op = "generate_structured_response" -> "dict"
      [] OTHER -> "str"

(* C4: for every combination of provider outcomes each public gateway      *)
(* operation returns a value of its declared shape and never raises to its *)
(* caller; generate_response always returns a non-empty string.            *)
C4_NeverRaisesDeclaredShape ==
    gw.op # "none" =>
        /\ ~gw.out.raised
        /\ gw.out.value.type = DeclaredType(gw.op)
        /\ gw.op = "generate_creative_description" =>
              Len(gw.out.value.val) = 2
        /\ gw.op = "generate_structured_response" =>
              /\ DOMAIN gw.out.value.val = {"success", "content"}
              /\ gw.out.value.val.success \in BOOLEAN
        /\ gw.op = "generate_response" => gw.out.value.val # ""

----------------------------------------------------------------------------
(* Specification of the group gate: any user sends any text or photo, or   *)
(* one of the ungated commands, in any group or in the private chat;       *)
(* Telegram calls fail at any position, providers do anything              *)

TriggerPhrases == ActivationPhrases \cup DeactivationPhrases

\* one member is enough to exercise the gate: it is keyed by chat alone
GateUsers == {1}

HandleMessage ==
    \E u \in GateUsers : \E c \in ChatsOf(u), m \in RouterTexts, f \in TelegramFaults :
        handle_message(u, c, m, f)

HandlePhoto ==
    \E u \in GateUsers : \E c \in ChatsOf(u), f \in TelegramFaults :
        handle_photo(u, c, f)

HelpCommand ==
    \E u \in GateUsers : \E c \in ChatsOf(u), f \in TelegramFaults :
        help_command(u, c, f)

ClearMemoryCommand ==
    \E u \in GateUsers : \E c \in ChatsOf(u), f \in TelegramFaults :
        clear_memory_command(u, c, f)

NextGate ==
    \/ HandleMessage
    \/ HandlePhoto
    \/ HelpCommand
    \/ ClearMemoryCommand

SpecGate ==
    InitWithGemini
    /\ [][NextGate]_vars

----------------------------------------------------------------------------
(* Specification of the modes: any user sends any text or a mode command   *)
(* in one group or in the private chat                                     *)

ModeChats(user_id) == {user_id}

DispatchMessage ==
    \E u \in Users : \E c \in ModeChats(u), m \in RouterTexts, f \in TelegramFaults :
        handle_message(u, c, m, f)

ImageModeCommand ==
    \E u \in Users : \E c \in ModeChats(u), f \in TelegramFaults :
        image_mode_command(u, c, f)

ChatModeCommand ==
    \E u \in Users : \E c \in ModeChats(u), f \in TelegramFaults :
        chat_mode_command(u, c, f)

ImaginePromptCommand ==
    \E u \in Users : \E c \in ModeChats(u), f \in TelegramFaults :
        imagine_prompt_command(u, c, f)

NextModes ==
    \/ DispatchMessage
    \/ ImageModeCommand
    \/ ChatModeCommand
    \/ ImaginePromptCommand

SpecModes ==
    Init /\ [][NextModes]_vars

----------------------------------------------------------------------------
(* Specification of the broadcast dispatcher: users register with /start,  *)
(* anyone issues the two broadcast commands, each send does anything       *)

Register ==
    \E u \in Users : start_command(u, u, {})

BroadcastCommand ==
    \E caller \in Callers, has_text \in BOOLEAN, status_ok \in BOOLEAN :
        broadcast_command(caller, has_text, status_ok)

PieceLists ==
    UNION {[1..n -> IdPieces] : n \in 0..MaxTargets}

\* the arguments of a caller who is not the admin are never read
BroadcastToCommand ==
    \E caller \in Callers :
    \E pieces \in (IF is_admin(caller) THEN PieceLists ELSE {<<>>}),
       status_ok \in BOOLEAN :
        broadcast_to_command(caller, pieces, status_ok)

NextBroadcast ==
    \/ Register
    \/ BroadcastCommand
    \/ BroadcastToCommand

SpecBroadcast ==
    InitWithGemini
    /\ [][NextBroadcast]_vars

----------------------------------------------------------------------------
(* Claims about the group gate (SpecGate)                                  *)

\* the stored flag of group g says silent
Silenced(g) == g < 0 /\ Get(group_status, ToString(g), TRUE) = FALSE

\* the update e is a photo, or a text that is no group-control phrase
NonTrigger(e) ==
    \/ e.handler = "handle_photo"
    \/ e.handler = "handle_message" /\ Lower(Strip(e.text)) \notin TriggerPhrases

IsPhrase(e, phrases) ==
    e.handler = "handle_message" /\ Lower(Strip(e.text)) \in phrases

\* some reply reached the chat
Answered(e) ==
    \E i \in 1..Len(e.api) :
        e.api[i].ok /\ e.api[i].call \in {"reply_text", "edit_text", "reply_photo"}

AllCallsOk(e) == \A i \in 1..Len(e.api) : e.api[i].ok

(* C5: in a group, handling a deactivation phrase leaves the group silent   *)
(* and handling an activation phrase leaves it active; a non-trigger text   *)
(* or photo in a silent group makes no Telegram call at all, and in an      *)
(* active group it is answered (a call is attempted, and a reply arrives    *)
(* when no call fails); the flag of a group changes only when a phrase of   *)
(* the opposite kind is handled in that very group.                         *)
C5_GroupSilencing ==
    /\ [](/\ (ev.chat_id < 0 /\ IsPhrase(ev, DeactivationPhrases))
                => Silenced(ev.chat_id)
          /\ (ev.chat_id < 0 /\ IsPhrase(ev, ActivationPhrases))
                => ~Silenced(ev.chat_id)
          /\ (ev.chat_id < 0 /\ NonTrigger(ev) /\ Silenced(ev.chat_id))
                => ev.api = <<>> /\ ~Answered(ev)
          /\ (ev.chat_id < 0 /\ NonTrigger(ev) /\ ~Silenced(ev.chat_id))
                => ev.api # <<>> /\ (AllCallsOk(ev) => Answered(ev)))
    /\ [][\A g \in Groups :
            (Get(group_status', ToString(g), TRUE)
                # Get(group_status, ToString(g), TRUE))
            => /\ ev'.chat_id = g
               /\ IsPhrase(ev', IF Silenced(g) THEN ActivationPhrases
                                ELSE DeactivationPhrases)]_vars

\* a text was dropped in the silent group -1 while group -2, which had been
\* silenced and activated again, is active
C5_Witness ==
    /\ ev.handler = "handle_message"
    /\ ev.route = "dropped"
    /\ ev.chat_id = -1
    /\ Silenced(-1)
    /\ ToString(-2) \in DOMAIN group_status
    /\ ~Silenced(-2)

----------------------------------------------------------------------------
(* Claims about the modes (SpecModes)                                      *)

Mode(modes, user_id) == Get(modes, user_id, "chat")

\* the text of update e gets past the group-control phrases and the gate
ReachesDispatch(e) ==
    /\ e.handler = "handle_message"
    /\ Lower(Strip(e.text)) \notin TriggerPhrases
    /\ ~Silenced(e.chat_id)

ModeCommands ==
    {"image_mode_command", "chat_mode_command", "imagine_prompt_command"}

(* C7: the enter-creative-prompt command puts the user in creative-prompt  *)
(* mode; the next text of that user that reaches mode dispatch is handled  *)
(* as a creative-description request, is not recorded as an exchange, and  *)
(* leaves the user in chat mode whatever happens to the request and to the *)
(* reply; a text that reaches dispatch in chat mode is handled as chat (a  *)
(* chat turn, or the image request chat mode recognises by keyword).       *)
C7_OneShotCreativePrompt ==
    [][/\ ev'.handler = "imagine_prompt_command"
          => Mode(user_modes', ev'.user_id) = "imagine_prompt"
       /\ (ReachesDispatch(ev')
           /\ Mode(user_modes, ev'.user_id) = "imagine_prompt")
          => /\ ev'.route = "imagine_prompt"
             /\ \A i \in 1..Len(ev'.ops) :
                   ev'.ops[i] = "generate_creative_description"
             /\ Mode(user_modes', ev'.user_id) = "chat"
             /\ UNCHANGED memvars
       /\ (ReachesDispatch(ev') /\ Mode(user_modes, ev'.user_id) = "chat")
          => /\ ev'.route \in {"chat", "image_request"}
             /\ Mode(user_modes', ev'.user_id) = "chat"]_vars

\* a creative-prompt text was consumed, every reply failed and the exception
\* left the handler: the user is in chat mode
C7_Witness ==
    /\ ev.route = "imagine_prompt"
    /\ ev.ops = <<"generate_creative_description">>
    /\ ev.escaped
    /\ ev.user_id \in DOMAIN user_modes
    /\ user_modes[ev.user_id] = "chat"

(* C8 as stated: the enter-image-mode command puts the user in image mode, *)
(* and every text of a user in image mode is routed to image generation    *)
(* and never recorded.                                                     *)
C8_AsStated ==
    [][/\ ev'.handler = "image_mode_command"
          => Mode(user_modes', ev'.user_id) = "image"
       /\ (ev'.handler = "handle_message"
           /\ Mode(user_modes, ev'.user_id) = "image")
          => ev'.route = "image" /\ UNCHANGED memvars]_vars

(* C8 amended: every mode is chat initially; the enter-image-mode command  *)
(* puts the user in image mode when the Gemini key is configured and       *)
(* leaves the mode as it was when it is not; every text of a user in image *)
(* mode that reaches mode dispatch (no group-control phrase, not dropped   *)
(* by the gate) is routed to image generation, calls no chat generation,   *)
(* records no exchange and leaves the mode image; the mode of a user       *)
(* changes only by a mode command of that user or by the consumption of    *)
(* the creative-prompt mode by a text of that user.                        *)
C8_ImageMode ==
    /\ [](ev.handler = "none"
            => \A u \in Users : Mode(user_modes, u) = "chat")
    /\ [][/\ ev'.handler = "image_mode_command"
             => Mode(user_modes', ev'.user_id) =
                   IF gemini_client THEN "image"
                   ELSE Mode(user_modes, ev'.user_id)
          /\ (ReachesDispatch(ev') /\ Mode(user_modes, ev'.user_id) = "image")
             => /\ ev'.route = "image"
                /\ \A i \in 1..Len(ev'.ops) : ev'.ops[i] = "generate_image"
                /\ ev'.providers = <<>>
                /\ Mode(user_modes', ev'.user_id) = "image"
                /\ UNCHANGED memvars
          /\ \A v \in Users :
                Mode(user_modes', v) # Mode(user_modes, v)
                => /\ ev'.user_id = v
                   /\ \/ ev'.handler \in ModeCommands
                      \/ /\ ReachesDispatch(ev')
                         /\ Mode(user_modes, v) = "imagine_prompt"
                         /\ ev'.route = "imagine_prompt"]_vars

\* a text of a user in image mode went to image generation
C8_Witness ==
    /\ ev.route = "image"
    /\ ev.ops = <<"generate_image">>
    /\ gemini_client
    /\ Mode(user_modes, ev.user_id) = "image"
    /\ conversations = EmptyDict

----------------------------------------------------------------------------
(* Claims about the broadcasts (SpecBroadcast)                             *)

RemovalErrors == {"Forbidden: bot was blocked by the user", "Chat not found"}

\* the positions of the list of pass b whose send raised an error that
\* removes the recipient
RemovingEntries(b) ==
    {i \in 1..Len(b.targets) :
        b.outcomes[i] # NotCalled /\ b.outcomes[i].raises
        /\ b.outcomes[i].text \in RemovalErrors}

\* the known-users set when entry i of pass b is handled
KnownAt(b, i) ==
    b.before \ {b.targets[j] : j \in {k \in RemovingEntries(b) : k < i}}

\* what happens to entry i of pass b
Outcome(b, i) ==
    IF b.op = "send_targeted_broadcast" /\ b.targets[i] \notin KnownAt(b, i)
    THEN "not_found"
    ELSE IF b.outcomes[i].raises THEN "failed" ELSE "sent"

EntriesWith(b, event) ==
    {i \in 1..Len(b.targets) : Outcome(b, i) = event}

(* C9: a broadcast pass that starts handles every entry of its list once,  *)
(* in order, whatever happened to the entries before it (the untargeted    *)
(* pass has one entry for each known user); the sent, failed and not-found *)
(* counts are the numbers of entries that were sent, that raised, and that *)
(* were not in the known-users set when handled, and they add up to the    *)
(* number of entries.                                                      *)
C9_EveryTargetCounted ==
    bc.started
    => /\ Len(bc.log) = Len(bc.targets)
       /\ \A i \in 1..Len(bc.targets) :
             /\ bc.log[i].target = bc.targets[i]
             /\ bc.log[i].event = Outcome(bc, i)
       /\ bc.op = "send_broadcast"
          => /\ {bc.targets[i] : i \in 1..Len(bc.targets)} = bc.before
             /\ Len(bc.targets) = Cardinality(bc.before)
       /\ bc.sent_count = Cardinality(EntriesWith(bc, "sent"))
       /\ bc.failed_count = Cardinality(EntriesWith(bc, "failed"))
       /\ bc.not_found_count = Cardinality(EntriesWith(bc, "not_found"))
       /\ bc.sent_count + bc.failed_count + bc.not_found_count
             = Len(bc.targets)

\* a targeted pass whose first send failed and whose second send succeeded
C9_Witness ==
    /\ bc.started
    /\ bc.op = "send_targeted_broadcast"
    /\ Len(bc.log) = 2
    /\ bc.log[1].event = "failed"
    /\ bc.log[2].event = "sent"
    /\ bc.sent_count = 1
    /\ bc.failed_count = 1

(* C10: after a broadcast pass the known-users set is the set before the   *)
(* pass without the recipients whose send failed with a blocked or         *)
(* chat-not-found error; every other user, a recipient whose send failed   *)
(* with another error included, stays; the users file is written once,     *)
(* after the last entry, with that set.                                    *)
C10_RemovesUnreachable ==
    /\ [](bc.started
          => /\ bc.after =
                   bc.before \ {bc.targets[i] : i \in RemovingEntries(bc)}
             /\ Len(bc.writes) = 1
             /\ bc.writes[1].entries_done = Len(bc.targets)
             /\ bc.writes[1].content = bc.after)
    /\ [][(bc'.started /\ bc' # bc)
          => bc'.before = users /\ users' = bc'.after]_vars

\* a pass in which one recipient failed with a timeout and stays, and another
\* was blocked and is removed
C10_Witness ==
    /\ bc.started
    /\ \E i, j \in 1..Len(bc.log) :
          /\ bc.log[i].event = "failed"
          /\ bc.log[i].error = "Timed out"
          /\ bc.targets[i] \in bc.after
          /\ bc.targets[i] \in users
          /\ bc.log[j].event = "failed"
          /\ bc.log[j].error = "Forbidden: bot was blocked by the user"
          /\ bc.targets[j] \notin users

----------------------------------------------------------------------------
(* Claims about clearing (SpecMemory)                                      *)

(* C11: a step of clear_conversation (the only step that leaves the clock  *)
(* alone) removes the conversation list of exactly one user and changes    *)
(* nothing else: the lists of the other users, the long-term-memory record *)
(* of every user (the cleared user's included), the modes, the group flags *)
(* and the known-users set are as before.                                  *)
C11_ClearFrame ==
    [][clock' = clock
       => /\ \E u \in DOMAIN conversations :
                /\ DOMAIN conversations' = DOMAIN conversations \ {u}
                /\ \A v \in DOMAIN conversations' :
                      conversations'[v] = conversations[v]
          /\ long_term_memory' = long_term_memory
          /\ UNCHANGED <<users, group_status, user_modes, last_add>>]_vars

\* a user was cleared: the list is gone, the long-term record with its
\* counter and style descriptors is still there, and the other user's list
\* is still there
C11_Witness ==
    \E u, v \in Users :
        /\ u \notin DOMAIN conversations
        /\ u \in DOMAIN long_term_memory
        /\ long_term_memory[u].total_messages > 0
        /\ long_term_memory[u].communication_style # <<>>
        /\ v \in DOMAIN conversations
        /\ conversations[v] # <<>>

----------------------------------------------------------------------------
(* Claims about the context block (SpecMemory)                             *)

\* the three pieces that close every non-empty context
ContextTail ==
    <<"=== enhanced instructions ===",
      "rely on the context above, do not repeat the same replies",
      "=== new message ===">>

SectionHeaders ==
    {"=== user patterns ===", "=== conversation analysis ===",
     "=== enhanced instructions ==="}

(* C12: for every user, get_conversation_context is the empty text when    *)
(* the user has no stored exchange (never recorded, or cleared); otherwise  *)
(* it opens with the exchange block, which holds the last min(8, n) of the  *)
(* n stored exchanges, numbered from 1, in stored order, and nothing of an  *)
(* older exchange; the block is followed by a section header, and the text  *)
(* ends with the fixed instruction pieces whatever the pattern summary and  *)
(* the analysis lines are.                                                  *)
C12_ContextShape ==
    \A u \in Users :
        LET ctx == get_conversation_context(u)
            hist == Get(conversations, u, <<>>)
            n == IF Len(hist) < 8 THEN Len(hist) ELSE 8
        IN  IF hist = <<>>
            THEN ctx = <<>>
            ELSE /\ Len(ctx) >= 1 + 3 * n + 3
                 /\ ctx[1] = "=== previous conversation ==="
                 /\ \A i \in 1..n :
                       /\ ctx[3 * i - 1] = "#" \o ToString(i)
                       /\ ctx[3 * i] = hist[Len(hist) - n + i].user
                       /\ ctx[3 * i + 1] = hist[Len(hist) - n + i].assistant
                 /\ ctx[3 * n + 2] \in SectionHeaders
                 /\ SubSeq(ctx, Len(ctx) - 2, Len(ctx)) = ContextTail

\* one user has more than eight exchanges, the last one new and unlike the
\* loaded ones, with a pattern summary in the context; another user was
\* cleared
C12_Witness ==
    \E u, v \in Users :
        /\ u \in DOMAIN conversations
        /\ Len(conversations[u]) > 8
        /\ last_add.user_id = u
        /\ conversations[u][Len(conversations[u])] = last_add.exchange
        /\ last_add.exchange.user = "shno rayak kam min 10"
        /\ get_user_patterns(u) # <<>>
        /\ v \notin DOMAIN conversations
        /\ v \in DOMAIN long_term_memory
        /\ get_conversation_context(v) = <<>>

----------------------------------------------------------------------------
(* Specification SpecAdmin: the commands the documentation reserves for    *)
(* the admin, called by the admin and by another user.  The two broadcast  *)
(* commands leave ev alone, so here only the other user calls them.        *)

AdminOnlyHandlers == {"admin_command", "admin_commands_command", "promo_messages_command", "stats_command", "logs_command", "list_users_command", "add_users_command", "gpt41_analyze_command", "gpt41_structured_command", "gpt41_features_command"}

NonAdmins == Callers \ ADMIN_IDS

NextAdmin ==
    \/ Register
    \/ \E caller \in Callers, faults \in TelegramFaults :
          admin_command(caller, caller, faults)
    \/ \E caller \in Callers, faults \in TelegramFaults, chunks \in 0..MaxChunks :
          admin_commands_command(caller, caller, faults, chunks)
    \/ \E caller \in Callers, faults \in TelegramFaults, chunks \in 0..MaxChunks :
          promo_messages_command(caller, caller, faults, chunks)
    \/ \E caller \in Callers, faults \in TelegramFaults :
          stats_command(caller, caller, faults)
    \/ \E caller \in Callers, faults \in TelegramFaults :
          logs_command(caller, caller, faults)
    \/ \E caller \in Callers, faults \in TelegramFaults :
          list_users_command(caller, caller, faults)
    \/ \E caller \in Callers, faults \in TelegramFaults :
       \E pieces \in (IF is_admin(caller) THEN PieceLists ELSE {<<>>}) :
          add_users_command(caller, caller, faults, pieces)
    \/ \E caller \in Callers, faults \in TelegramFaults, has_args \in BOOLEAN :
       \E primary \in (IF has_args THEN AnalysisPrimary ELSE {NotCalled}) :
          gpt41_analyze_command(caller, caller, faults, has_args, primary)
    \/ \E caller \in Callers, faults \in TelegramFaults, has_args \in BOOLEAN :
       \E primary \in (IF has_args THEN AnalysisPrimary ELSE {NotCalled}) :
          gpt41_structured_command(caller, caller, faults, has_args, primary)
    \/ \E caller \in Callers, faults \in TelegramFaults :
          gpt41_features_command(caller, caller, faults)
    \/ \E caller \in NonAdmins, has_text \in BOOLEAN, status_ok \in BOOLEAN :
          broadcast_command(caller, has_text, status_ok)
    \/ \E caller \in NonAdmins, status_ok \in BOOLEAN :
          broadcast_to_command(caller, <<>>, status_ok)

SpecAdmin ==
    Init /\ [][NextAdmin]_vars

----------------------------------------------------------------------------
(* C13 *)

\* the calls of an update are the refusal, followed at most by the error
\* handler's notice when sending the refusal failed
OnlyRefused(api) ==
    /\ api # <<>>
    /\ api[1].call = Refusal[1] /\ api[1].what = Refusal[2]
    /\ \A i \in 2..Len(api) : api[i].what = "unexpected error"

\* C13: when a caller who is not an admin invokes an admin-only command,
\* the caller gets the refusal and nothing else: no message to anybody
\* else, no provider call, and no store is modified.
C13_AdminOnly ==
    [][/\ (bc' = bc /\ ev'.handler \in AdminOnlyHandlers /\ ev'.user_id \notin ADMIN_IDS)
          => /\ OnlyRefused(ev'.api)
             /\ ev'.providers = <<>>
             /\ ev'.ops = <<>>
             /\ UNCHANGED <<users, group_status, user_modes, memvars>>
       /\ bc' # bc
          => /\ ~bc'.started
             /\ bc'.log = <<>>
             /\ UNCHANGED <<users, group_status, user_modes, memvars, ev>>]_vars

----------------------------------------------------------------------------
(* C14 *)

\* the step handles a chat turn that got as far as the gateway
ChatTurnStep ==
    /\ ev'.handler = "handle_message"
    /\ ev'.route = "chat"
    /\ ev'.ops # <<>>

\* the step records the exchange of the turn with assistant text assistant
Records(assistant) ==
    /\ clock' = clock + 1
    /\ last_add' = [user_id |-> ev'.user_id,
                    exchange |-> [timestamp |-> clock, user |-> ev'.text,
                                  assistant |-> assistant]]
    /\ ev'.user_id \in DOMAIN conversations'
    /\ conversations'[ev'.user_id] # <<>>
    /\ conversations'[ev'.user_id][Len(conversations'[ev'.user_id])] = last_add'.exchange

(* C14 as stated: in every chat turn the exchange is recorded before the    *)
(* reply is delivered, so it is recorded whether or not the delivery        *)
(* succeeds, and the recorded assistant text is the cleaned response, the   *)
(* text that is sent.                                                       *)
C14_AsStated ==
    [][ChatTurnStep
       => /\ Len(ev'.api) >= 2
          /\ ev'.api[2].call = "reply_text"
          /\ ev'.api[2].what = _clean_response_text(ev'.response)
          /\ Records(ev'.api[2].what)]_vars

(* C14: in every chat turn the reply, the cleaned form of the validated     *)
(* response, is sent right after the typing action and before anything is   *)
(* recorded: the exchange is recorded exactly when the reply was delivered, *)
(* its assistant text is the validated response as it was before cleaning,  *)
(* and a turn whose reply fails leaves the memory engine untouched.         *)
C14_ReplyThenRecord ==
    [][ChatTurnStep
       => /\ Len(ev'.api) >= 2
          /\ ev'.api[1].call = "send_chat_action" /\ ev'.api[1].ok
          /\ ev'.api[2].call = "reply_text"
          /\ ev'.api[2].what = _clean_response_text(ev'.response)
          /\ IF ev'.api[2].ok
             THEN Records(ev'.response)
             ELSE UNCHANGED memvars]_vars

\* a delivered reply differs from the text recorded for it
C14_Witness ==
    /\ ev.handler = "handle_message"
    /\ ev.route = "chat"
    /\ Len(ev.api) = 2
    /\ ev.api[2].ok
    /\ last_add.user_id = ev.user_id
    /\ last_add.exchange.assistant = ev.response
    /\ ev.api[2].what # ev.response
    /\ ev.api[2].what = _clean_response_text(ev.response)

----------------------------------------------------------------------------
(* Specification SpecDispatch: chat messages arrive in private chats and   *)
(* the application hands them to handle_message.                           *)

\*   "shlonak" = شلونك, "marhaba" = مرحبا: texts that are answered by a chat turn
DispatchTexts == {"shlonak", "marhaba"}

ReceiveUpdate ==
    \E u \in Users, m \in DispatchTexts : receive_update(u, m)

BuildContext ==
    \E i \in 1..Len(tasks), sent \in BOOLEAN : build_context(i, sent)

ReceiveResponse ==
    \E i \in 1..Len(tasks) :
    \E p1 \in RouterPrimary : \E s1 \in SecondaryAfter(p1) :
    \E p2 \in RouterPrimary : \E s2 \in SecondaryAfter(p2) :
        receive_response(i, p1, s1, p2, s2)

FinishTurn ==
    \E i \in 1..Len(tasks), sent \in BOOLEAN : finish_turn(i, sent)

NextDispatch ==
    \/ ReceiveUpdate
    \/ fetch_update
    \/ BuildContext
    \/ ReceiveResponse
    \/ FinishTurn

SpecDispatch ==
    Init /\ [][NextDispatch]_vars

----------------------------------------------------------------------------
(* C15 *)

\* handler i has built its context and its exchange is not recorded yet
ContextBuilt(i) == tasks[i].at \in {"gateway", "reply"}

\* two handlers for the same user have both built their context before
\* either has recorded its exchange
StaleSnapshot ==
    \E i, j \in 1..Len(tasks) :
        /\ i # j
        /\ tasks[i].user_id = tasks[j].user_id
        /\ ContextBuilt(i)
        /\ ContextBuilt(j)

\* two messages of one user are with the application together: the handler
\* of the first has built its context, the second is in the queue
TwoTogether ==
    /\ update_queue # <<>>
    /\ \E i \in 1..Len(tasks) :
          ContextBuilt(i) /\ tasks[i].user_id = Head(update_queue)[1]

----------------------------------------------------------------------------
(* C16 *)

\* the steps of the vision chain fail by raising or by returning nothing;
\* the fallback vision provider also fails when it is not configured
VisionFailed == gw.primary.raises \/ ~Truthy(gw.primary.text)

FallbackVisionFailed ==
    ~gemini_client \/ gw.secondary.raises \/ ~Truthy(gw.secondary.text)

TextOnlyFailed == gw.third.raises \/ ~Truthy(gw.third.text)

\* the requests of the vision chain, in the order of the documentation
VisionChainCalls ==
    <<Gpt5Call("vision analysis_prompt", gw.user_message)>>
    \o (IF VisionFailed /\ gemini_client
        THEN <<GeminiCall("gemini vision analysis_prompt", gw.user_message)>>
        ELSE <<>>)
    \o (IF VisionFailed /\ FallbackVisionFailed
        THEN <<Gpt5Call("system_instruction",
                        <<"fallback_prompt", gw.user_message>>)>>
        ELSE <<>>)

(* C16: analyze_image calls the primary vision provider; when that fails    *)
(* (error or empty result) the fallback vision provider; when both fail,    *)
(* one text-only apology request to the primary provider; and it returns a *)
(* hardcoded apology only when that request fails too.  The apology of a   *)
(* failed fallback vision provider is never the result while the text-only *)
(* request is untried.                                                      *)
C16_OrderedChain ==
    gw.op = "analyze_image"
    => /\ gw.out.calls = VisionChainCalls
       /\ ~gw.out.raised
       /\ IF ~VisionFailed
          THEN gw.out.value = PyStr(_clean_response_text(Strip(gw.primary.text)))
          ELSE IF ~FallbackVisionFailed
          THEN gw.out.value = PyStr(_clean_response_text(Strip(gw.secondary.text)))
          ELSE IF ~TextOnlyFailed
          THEN gw.out.value = PyStr(Strip(gw.third.text))
          ELSE gw.out.value \in {PyStr(VisionFinalApology), PyStr(VisionEmptyApology)}

----------------------------------------------------------------------------
(* C17 *)

\* the provider's answer to the creative request, as it is parsed
CreativeResponse == Strip(gw.primary.text)

\* the answer lacks a section marker, or parsing by marker leaves a half
\* empty
Malformed ==
    \/ ~HasBothMarkers(CreativeResponse)
    \/ EnglishPart(CreativeResponse) = ""
    \/ ArabicPart(CreativeResponse) = ""

(* C17: generate_creative_description returns the templated fallback pair   *)
(* built from the user's description whenever the provider's answer lacks  *)
(* a section marker or parsing leaves the English prompt or the Arabic     *)
(* description empty, and it never returns a pair with an empty half.      *)
C17_FallbackPair ==
    gw.op = "generate_creative_description"
    => /\ gw.out.value.type = "tuple"
       /\ gw.out.value.val[1] # ""
       /\ gw.out.value.val[2] # ""
       /\ (gw.primary.raises \/ Malformed)
          => gw.out.value = _create_fallback_creative_description(gw.user_message)

----------------------------------------------------------------------------
(* C18 *)

\* the image-synthesis provider was asked and its image was written
ImageProduced(image) ==
    \E i \in 1..Len(image.calls) : image.calls[i].provider = "gemini"

PhotoSent(e) == \E i \in 1..Len(e.api) : e.api[i].call = "reply_photo"

----------------------------------------------------------------------------
(* Specification SpecClean: the response sanitizer applied to every text   *)
(* of at most MaxLen characters over the characters it treats specially.   *)

CleanAlphabet == {"a", " ", Backtick, "*", "_", "[", "]", "(", ")"}

InitClean ==
    /\ conversations = EmptyDict
    /\ long_term_memory = EmptyDict
    /\ clock = max_messages_per_user + 1
    /\ last_add = NoAdd
    /\ gemini_client = TRUE
    /\ \E n \in 0..MaxLen : \E chars \in [1..n -> CleanAlphabet] :
          gw = [user_message |-> Join(chars), secondary |-> NotCalled,
                primary |-> NotCalled, third |-> NotCalled, op |-> "input",
                out |-> Return(PyStr(""), <<>>)]
    /\ users = {}
    /\ group_status = EmptyDict
    /\ user_modes = EmptyDict
    /\ ev = NoUpdate
    /\ bc = NoBroadcast
    /\ update_queue = <<>>
    /\ tasks = <<>>

CleanResponseText ==
    /\ gw.op = "input"
    /\ GwOp("_clean_response_text", gw.user_message, NotCalled, NotCalled,
            NotCalled,
            Return(PyStr(_clean_response_text(gw.user_message)), <<>>))

NextClean ==
    CleanResponseText

SpecClean ==
    InitClean /\ [][NextClean]_vars

----------------------------------------------------------------------------
(* C19 *)

Cleaned == gw.op = "_clean_response_text"

Odd(n) == n % 2 = 1

\* text without its marker characters
Plain(text) ==
    Join(SelectSeq(Chars(text), LAMBDA c : c \notin {Backtick, "*", "_"}))

\* the positions of text where a link markup starts whose target is not
\* closed before the end of the text
UnclosedLinks(text) ==
    {i \in 1..Len(text) : LinkClose(Chars(text), i) # 0}

\* the first unclosed link of text: the text before it, and its display text
FirstLink(text) == CHOOSE i \in UnclosedLinks(text) : \A k \in UnclosedLinks(text) : i <= k

BeforeLink(text) == SubSeq(text, 1, FirstLink(text) - 1)

DisplayText(text) ==
    SubSeq(text, FirstLink(text) + 1, LinkClose(Chars(text), FirstLink(text)) - 1)

----------------------------------------------------------------------------
(* C20 *)

(* C20: for every input, the output of _clean_response_text holds an even   *)
(* number of backticks, of asterisks and of underscores, also when the     *)
(* repair of a trailing link removes characters after the counts were      *)
(* taken.                                                                   *)
C20_EvenCounts ==
    Cleaned
    => \A marker \in {Backtick, "*", "_"} :
          ~Odd(Count(Chars(gw.out.value.val), marker))

----------------------------------------------------------------------------
(* C30 *)

\* the sum of the counters of a dict
RECURSIVE SumCounts(_)
SumCounts(d) ==
    IF DOMAIN d = {} THEN 0
    ELSE LET k == CHOOSE x \in DOMAIN d : TRUE
         IN  d[k] + SumCounts(Del(d, k))

total_messages(u) == Get(long_term_memory, u, required_fields)["total_messages"]

\* an exchange is recorded in this step, for user u
Recorded(u) == last_add' # last_add /\ last_add'.user_id = u

(* C30: starting from stores as exchanges alone leave them, after any      *)
(* sequence of recorded exchanges and clears every user's total message    *)
(* count is the number of exchanges ever recorded for that user (it grows  *)
(* by one with each recorded exchange of the user and changes in no other  *)
(* step), it is the sum of the user's conversation-theme counters, and it  *)
(* is never less than the length of the stored history; eviction and clear *)
(* never decrease it.                                                      *)
C30_TotalCount ==
    /\ [](\A u \in Users :
            /\ u \in DOMAIN conversations => u \in DOMAIN long_term_memory
            /\ u \in DOMAIN long_term_memory =>
                  total_messages(u)
                     = SumCounts(long_term_memory[u]["conversation_themes"])
            /\ total_messages(u) >= Len(Get(conversations, u, <<>>)))
    /\ [][\A u \in Users :
            total_messages(u)' =
               IF Recorded(u) THEN total_messages(u) + 1 ELSE total_messages(u)]_vars

\* a user whose history was full, evicted an entry and was cleared, with
\* every exchange still counted
C30_Witness ==
    /\ last_add.user_id \in DOMAIN long_term_memory
    /\ last_add.user_id \notin DOMAIN conversations
    /\ total_messages(last_add.user_id) = max_messages_per_user + 1
    /\ DOMAIN long_term_memory[last_add.user_id]["conversation_themes"]
          = {"aam", "shakhsiya"}

----------------------------------------------------------------------------
(* Specification of the pattern tracker: the stores are empty or hold what *)
(* an earlier run wrote (a nearly full question history, or the record of  *)
(* an older version without the later fields); exchanges are recorded for  *)
(* any user with any text and any user issues the clear-memory command.    *)

\*   the long text = أريد شرح مفصل عن كل شي بالتفصيل من البداية إلى النهاية
\*   لو سمحت حبيبي (17 words)
PatternMessages ==
    {"shlonak", "marhaba", "shno rayak kam min 10",
     "areed sharh mufassal an kul shi bil tafseel min al bidaya ila al nihaya law samaht habibi"}

\* the exchanges of an earlier run: every third message asks for a rating,
\* the others are greetings
EarlierRun(n) ==
    [i \in 1..n |->
        [timestamp |-> i,
         user |-> IF i % 3 = 0 THEN "shno rayak kam min 10" ELSE "shlonak",
         assistant |-> "zain"]]

\* the long-term records after the first k of the given exchanges of user 0
\* (the comparison makes TLC evaluate the records of one update in full
\* before the next update is applied to them)
RECURSIVE RecordsAfter(_, _)
RecordsAfter(exchanges, k) ==
    IF k = 0 THEN EmptyDict
    ELSE LET before == RecordsAfter(exchanges, k - 1)
         IN  IF before = before
             THEN update_long_term_memory(before, 0, exchanges[k].user,
                                          exchanges[k].assistant,
                                          exchanges[k].timestamp)
             ELSE before

\* the record that long_term_memory.json holds after the earlier run
LoadedPatterns(n) == RecordsAfter(EarlierRun(n), n)[0]

\* the same record as a version without question tracking and themes wrote it
OlderRecord(n) ==
    [f \in {"frequent_topics", "communication_style", "preferences",
            "total_messages"} |-> LoadedPatterns(n)[f]]

QuestionLens == (20 - QuestionSlack) .. 20

\* what the files hold about one user: nothing, the stores of an earlier
\* run of this version, or those of an older version
FileShapes ==
    {<<"none", 0>>}
    \cup {<<kind, n>> : kind \in {"loaded", "older"}, n \in QuestionLens}

\* the user the files of the earlier run can hold; the other one is new
FileUsers == {1}

InitPatterns ==
    /\ \E shape \in [FileUsers -> FileShapes] :
          LET known == {u \in FileUsers : shape[u][1] # "none"}
          IN  /\ conversations = [u \in known |-> EarlierRun(shape[u][2])]
              /\ long_term_memory =
                    [u \in known |->
                        IF shape[u][1] = "loaded"
                        THEN LoadedPatterns(shape[u][2])
                        ELSE OlderRecord(shape[u][2])]
    /\ clock = max_messages_per_user + 1
    /\ last_add = NoAdd
    /\ gemini_client = TRUE
    /\ gw = NoOp
    /\ users = {}
    /\ group_status = EmptyDict
    /\ user_modes = EmptyDict
    /\ ev = NoUpdate
    /\ bc = NoBroadcast
    /\ update_queue = <<>>
    /\ tasks = <<>>

RecordPattern ==
    \E u \in Users, m \in PatternMessages :
        /\ clock < max_messages_per_user + 1 + MaxAdds
        /\ add_message_to_conversation(u, m, "zain")
        /\ UNCHANGED <<gwvars, routervars, bc, appvars>>

ClearMemory ==
    \E u \in Users, f \in {{}, {1}} :
        clear_memory_command(u, u, f)

NextPatterns == RecordPattern \/ ClearMemory

SpecPatterns ==
    InitPatterns /\ [][NextPatterns]_vars

----------------------------------------------------------------------------
(* C22 *)

communication_style(u) ==
    Get(long_term_memory, u, required_fields)["communication_style"]

Descriptors ==
    {"likes numeric ratings", "uses short messages",
     "prefers detailed explanation"}

Occurrences(x, lst) == Cardinality({i \in 1..Len(lst) : lst[i] = x})

(* C22: after any sequence of recorded exchanges a user's                  *)
(* communication_style list holds no descriptor twice and never loses a    *)
(* descriptor it held; after a user message of 3 words or fewer is         *)
(* recorded, "uses short messages" is in the list exactly once, however    *)
(* many such messages were recorded.                                       *)
C22_StyleSet ==
    /\ [](\A u \in Users : \A d \in Descriptors :
            Occurrences(d, communication_style(u)) <= 1)
    /\ [][\A u \in Users :
            /\ \A i \in 1..Len(communication_style(u)) :
                  InList(communication_style(u)[i], communication_style(u)')
            /\ (Recorded(u) /\ WordCount(last_add'.exchange.user) <= 3)
                  => Occurrences("uses short messages",
                                 communication_style(u)') = 1]_vars

\* a user who holds all three descriptors and has just sent one more short
\* message
C22_Witness ==
    /\ Len(communication_style(last_add.user_id)) = 3
    /\ last_add.exchange.user = "marhaba"
    /\ communication_style(last_add.user_id)[1] = "uses short messages"

----------------------------------------------------------------------------
(* C27 *)

\* the question history of a user; none before the first update, and none
\* in the record of an older version
question_history(u) ==
    IF u \in DOMAIN long_term_memory
       /\ "question_history" \in DOMAIN long_term_memory[u]
    THEN long_term_memory[u]["question_history"]
    ELSE <<>>

(* C27: after any sequence of recorded exchanges a user's question_history *)
(* holds at most 20 entries, the most recently tracked questions in        *)
(* recording order: a recorded message with a question essence is appended *)
(* as the last entry and drops the oldest entry exactly when the list held *)
(* 20; a message whose essence is empty adds no entry and evicts none.     *)
C27_QuestionHistory ==
    /\ [](\A u \in Users : Len(question_history(u)) <= 20)
    /\ [][\A u \in Users :
            LET old == question_history(u)
                new == question_history(u)'
                message == last_add'.exchange.user
            IN  IF Recorded(u) /\ extract_question_essence(message) # ""
                THEN /\ new # <<>>
                     /\ new[Len(new)].question = extract_question_essence(message)
                     /\ new[Len(new)].full_message = message
                     /\ new[Len(new)].timestamp = last_add'.exchange.timestamp
                     /\ SubSeq(new, 1, Len(new) - 1)
                           = IF Len(old) = 20 THEN Tail(old) ELSE old
                ELSE new = old]_vars

\* a full question history that dropped its oldest entry for a new question
\* and then saw a message without a question essence
C27_Witness ==
    /\ Len(question_history(last_add.user_id)) = 20
    /\ question_history(last_add.user_id)[1].timestamp = 2
    /\ question_history(last_add.user_id)[20].timestamp = max_messages_per_user + 1
    /\ last_add.exchange.user = "marhaba"
    /\ last_add.exchange.timestamp = max_messages_per_user + 2

----------------------------------------------------------------------------
(* C21 *)

Essences ==
    {question_patterns[i][2] : i \in 1..Len(question_patterns)}
    \cup {"general_inquiry"}

\* the essences that the context rendered for the user names
ReportedRepeated(u) ==
    {e \in Essences : InList(e, get_conversation_context(u))}

\* the two most recently recorded essences of the user are the same
LastTwoAlike(u) ==
    LET history == question_history(u)
    IN  /\ Len(history) >= 2
        /\ history[Len(history)].question = history[Len(history) - 1].question

LastEssence(u) == question_history(u)[Len(question_history(u))].question

\* how often the essence occurs among the last 5 recorded essences
InWindow(u, e) ==
    LET window == LastN(question_history(u), 5)
    IN  Cardinality({i \in 1..Len(window) : window[i].question = e})

(* C21 as stated: whenever the two most recently recorded question         *)
(* essences of a user are identical, the context rendered for the user     *)
(* reports that essence as a repeated question; an essence that occurs     *)
(* only once among the last 5 recorded essences is never reported.         *)
C21_AsStated ==
    \A u \in Users :
        /\ LastTwoAlike(u) => LastEssence(u) \in ReportedRepeated(u)
        /\ \A e \in Essences : InWindow(u, e) = 1 => e \notin ReportedRepeated(u)

(* C21: whenever the two most recently recorded question essences of a     *)
(* user are identical and the user's stored history is not empty, the      *)
(* context rendered for the user reports that essence as a repeated        *)
(* question; an essence that occurs only once among the last 5 recorded    *)
(* essences is never reported.                                             *)
C21_RepeatedQuestion ==
    \A u \in Users :
        /\ (LastTwoAlike(u) /\ Get(conversations, u, <<>>) # <<>>)
              => LastEssence(u) \in ReportedRepeated(u)
        /\ \A e \in Essences : InWindow(u, e) = 1 => e \notin ReportedRepeated(u)

\* the same request sent twice is reported, and so are the greetings of
\* the earlier run; the rating question, asked often before but only once
\* among the last five, is not
C21_Witness ==
    /\ LastTwoAlike(1)
    /\ ReportedRepeated(1) = {"greeting_question", "explain_request"}
    /\ InWindow(1, "what_question") = 1
    /\ Cardinality({i \in 1..Len(question_history(1)) :
                       question_history(1)[i].question = "what_question"}) > 1

----------------------------------------------------------------------------
(* C25 *)

\* topic frequency, communication style, question history, conversation
\* themes, total message count
NamedFields ==
    {"frequent_topics", "communication_style", "question_history",
     "conversation_themes", "total_messages"}

(* C25: every long-term-memory record held in memory has all the required  *)
(* fields at all times, also a record that was loaded from a file with     *)
(* fields missing and has not been updated yet, so that reading a user's   *)
(* patterns for the context never meets a record with a missing field.     *)
C25_RequiredFields ==
    \A u \in DOMAIN long_term_memory :
        NamedFields \subseteq DOMAIN long_term_memory[u]

----------------------------------------------------------------------------
(* C28 *)

\* the last update handled was the clear-memory command of user u, and the
\* bot replied that it has forgotten the previous conversations
ClearedFor(u) ==
    /\ ev.handler = "clear_memory_command"
    /\ ev.user_id = u
    /\ ev.api # <<>>
    /\ ev.api[1].what = "memory cleared"
    /\ ev.api[1].ok

\* The long-term memory of u in a second run that differs from this one
\* only in what u exchanged before the clear: there it was one greeting.
OtherRunMemory(u) ==
    LET before == <<[timestamp |-> 0, user |-> "marhaba", assistant |-> "zain"]>>
        exchanges == before \o Get(conversations, u, <<>>)
    IN  [x \in {u} |-> RecordsAfter(exchanges, Len(exchanges))[0]]

\* the context that the second run builds for u's next message
OtherRunContext(u) ==
    get_conversation_context_in(conversations, OtherRunMemory(u), u)

(* C28 as stated: after the clear-memory command succeeded for user u the  *)
(* context built for u's later messages holds nothing derived from the     *)
(* exchanges recorded before the clear: a run that differs only in u's     *)
(* exchanges before the clear builds the same context for the same         *)
(* messages after it.                                                      *)
C28_AsStated ==
    \A u \in Users :
        ClearedFor(u) => get_conversation_context(u) = OtherRunContext(u)

(* C28: the clear-memory command that succeeds for user u deletes u's      *)
(* stored exchanges and nothing else: the context of u's next message is   *)
(* empty, the histories of other users and every long-term record, u's     *)
(* included, stay as they were.                                            *)
C28_ForgetsExchangesOnly ==
    [][\A u \in Users :
          (ClearedFor(u)' /\ last_add' = last_add) =>
              /\ u \in DOMAIN conversations
              /\ conversations' = Del(conversations, u)
              /\ get_conversation_context(u)' = <<>>
              /\ long_term_memory' = long_term_memory]_vars

\* after the clear and one more exchange the context of u still shows the
\* count of all the exchanges of the earlier run
C28_Witness ==
    /\ ClearedFor(1)
    /\ Len(Get(conversations, 1, <<>>)) = 1
    /\ InList("total messages:", get_conversation_context(1))
    /\ ~InList("total messages:", OtherRunContext(1))
    /\ total_messages(1) > 20

----------------------------------------------------------------------------
(* C24 *)

(* C24: the known-users set holds every user observed through any          *)
(* interaction: after a command, a text or a photo of user u was handled,  *)
(* u is in the known-users set.                                            *)
C24_EveryUserKnown ==
    ev.handler # "none" => ev.user_id \in users


----------------------------------------------------------------------------
(* The two admin commands that take a list of ids (SpecIdLists)            *)

\* the first argument of the two commands here: up to MaxTargets pieces,
\* each a valid id or a piece that is no number
IdLists ==
    UNION {[1..n -> {"1", "x"}] : n \in 0..MaxTargets}

\* the admin sends /add_users with a first argument of these pieces
AddUsersCommand ==
    \E admin \in ADMIN_IDS, faults \in {{}, {1}}, pieces \in IdLists :
        add_users_command(admin, admin, faults, pieces)

\* the admin sends /broadcast_to with a first argument of these pieces
BroadcastToIds ==
    \E admin \in ADMIN_IDS, pieces \in IdLists, status_ok \in BOOLEAN :
        broadcast_to_command(admin, pieces, status_ok)

NextIdLists ==
    \/ AddUsersCommand
    \/ BroadcastToIds

SpecIdLists ==
    Init
    /\ [][NextIdLists]_vars

\* int() raises ValueError on some piece of the list
HasBadPiece(pieces) ==
    \E i \in 1..Len(pieces) :
        StripPiece(pieces[i]) # "" /\ ParseId(StripPiece(pieces[i])) = 0

BadLists == {pieces \in IdLists : HasBadPiece(pieces)}

\* the step handles /add_users, or /broadcast_to, of the admin with a list
\* that holds a non-numeric piece
BadAddUsersStep ==
    \E admin \in ADMIN_IDS, faults \in TelegramFaults, pieces \in BadLists :
        add_users_command(admin, admin, faults, pieces)

BadBroadcastToStep ==
    \E admin \in ADMIN_IDS, status_ok \in BOOLEAN, pieces \in BadLists :
        broadcast_to_command(admin, pieces, status_ok)

(* C26: the admin's /add_users or /broadcast_to whose id list holds a      *)
(* non-numeric piece is answered with the hint about the ids (the first    *)
(* reply attempted is that hint, and the only one when it is delivered)    *)
(* and changes nothing else: the known-users set is the same after the     *)
(* step, so no id of the list is added, the ones in front of the bad piece *)
(* included, and no broadcast pass starts, so no message goes to any       *)
(* target.  (The step is recognised by the record it writes: the update    *)
(* record for /add_users, the broadcast record for /broadcast_to.)         *)
C26_BadIdList ==
    [][/\ (ev' # ev /\ BadAddUsersStep)
          => /\ users' = users
             /\ bc' = bc
             /\ ev'.api # <<>>
             /\ ev'.api[1].call = "reply_text"
             /\ ev'.api[1].what = "bad ids"
             /\ ev'.api[1].ok => Len(ev'.api) = 1
       /\ (bc' # bc /\ BadBroadcastToStep)
          => /\ users' = users
             /\ ev' = ev
             /\ bc'.op = "broadcast_to_command: bad ids"
             /\ ~bc'.started
             /\ bc'.targets = <<>>
             /\ bc'.log = <<>>
             /\ bc'.sent_count = 0]_vars

\* /add_users was answered with the hint about the ids while a list of a
\* valid id and a bad piece is among the lists sent, and the known-users set
\* holds neither 1 nor 2
C26_Witness ==
    /\ ev.handler = "add_users_command"
    /\ ev.api # <<>>
    /\ ev.api[1].what = "bad ids"
    /\ ev.api[1].ok
    /\ users = {}
    /\ <<"1", "x">> \in BadLists


----------------------------------------------------------------------------
(* A private chat next to a group, with group_status.json loaded           *)
(* (SpecPrivate)                                                           *)

PrivateUsers == {1}
PrivateChats(user_id) == {user_id, -1}

\* the keys group_status.json can hold here: the group, and the private
\* chat of the user (set_group_status never writes that one; a file can)
StatusKeys == {ToString(-1)} \cup {ToString(u) : u \in PrivateUsers}

\* after load_group_status: the dictionary read from the file
InitPrivate ==
    /\ conversations = EmptyDict
    /\ long_term_memory = EmptyDict
    /\ clock = max_messages_per_user + 1
    /\ last_add = NoAdd
    /\ gemini_client = TRUE
    /\ gw = NoOp
    /\ users = {}
    /\ \E keys \in SUBSET StatusKeys : group_status \in [keys -> BOOLEAN]
    /\ user_modes = EmptyDict
    /\ ev = NoUpdate
    /\ bc = NoBroadcast
    /\ update_queue = <<>>
    /\ tasks = <<>>

PrivateTexts == {"solef", "enjeb", "shlonak"}

PrivateMessage ==
    \E u \in PrivateUsers :
    \E c \in PrivateChats(u), m \in PrivateTexts, f \in {{}, {1}} :
        /\ clock < max_messages_per_user + 1 + MaxAdds
        /\ handle_message(u, c, m, f)

PrivatePhoto ==
    \E u \in PrivateUsers : \E c \in PrivateChats(u), f \in {{}, {1}} :
        handle_photo(u, c, f)

NextPrivate ==
    \/ PrivateMessage
    \/ PrivatePhoto

SpecPrivate ==
    InitPrivate
    /\ [][NextPrivate]_vars

(* C23: a private chat is always active: is_group_active is true for the   *)
(* private chat of every user whatever flag is stored under its id; an     *)
(* activation or deactivation phrase sent there is answered (the reply     *)
(* attempted is the groups-only notice), no text or photo sent there is    *)
(* dropped, and no update of a private chat changes a stored group flag.   *)
C23_PrivateAlwaysActive ==
    /\ [](/\ \A u \in PrivateUsers : is_group_active(u)
          /\ (ev.chat_id > 0 /\ IsPhrase(ev, TriggerPhrases))
                => /\ ev.route = "groups_only"
                   /\ ev.api # <<>>
                   /\ ev.api[1].call = "reply_text"
                   /\ ev.api[1].what = "groups only"
          /\ ev.chat_id > 0
                => ev.route # "dropped" /\ ev.api # <<>>)
    /\ [][ev'.chat_id > 0 => group_status' = group_status]_vars

\* the file stored "silent" under the private chat of user 1, and a
\* deactivation phrase sent there got the groups-only notice
C23_Witness ==
    /\ ToString(1) \in DOMAIN group_status
    /\ group_status[ToString(1)] = FALSE
    /\ ev.chat_id = 1
    /\ IsPhrase(ev, DeactivationPhrases)
    /\ ev.route = "groups_only"
    /\ ev.api[1].ok


----------------------------------------------------------------------------
(* The one-shot creative-prompt mode of a user who writes in a private     *)
(* chat and in a group (SpecOneShot)                                       *)

\* user 1 uses every update below; user 2 only writes in the group
OneShotUsers == {1, 2}
OneShotChats(user_id) == IF user_id = 1 THEN {user_id, -1} ELSE {-1}
OneShotTexts(user_id) ==
    IF user_id = 1 THEN {"solef", "enjeb", "shlonak"} ELSE {"shlonak"}
OneShotFaults(user_id) == IF user_id = 1 THEN {{}, {1}} ELSE {{}}

OneShotMessage ==
    \E u \in OneShotUsers :
    \E c \in OneShotChats(u), m \in OneShotTexts(u), f \in OneShotFaults(u) :
        /\ clock < max_messages_per_user + 1 + MaxAdds
        /\ handle_message(u, c, m, f)

OneShotPhoto ==
    \E c \in OneShotChats(1), f \in OneShotFaults(1) :
        handle_photo(1, c, f)

OneShotModeCommand ==
    \E c \in OneShotChats(1), f \in OneShotFaults(1) :
        \/ imagine_prompt_command(1, c, f)
        \/ image_mode_command(1, c, f)
        \/ chat_mode_command(1, c, f)

OneShotOtherCommand ==
    \E c \in OneShotChats(1), f \in OneShotFaults(1) :
        \/ start_command(1, c, f)
        \/ help_command(1, c, f)
        \/ clear_memory_command(1, c, f)

NextOneShot ==
    \/ OneShotMessage
    \/ OneShotPhoto
    \/ OneShotModeCommand
    \/ OneShotOtherCommand

SpecOneShot ==
    InitWithGemini
    /\ [][NextOneShot]_vars

InCreativePrompt(modes, user_id) == Mode(modes, user_id) = "imagine_prompt"

\* the update handled in this step is a text of user u that is no group
\* control phrase, sent in a chat whose gate is open
TextPastGate(u) ==
    /\ ev'.handler = "handle_message"
    /\ ev'.user_id = u
    /\ ~IsPhrase(ev', TriggerPhrases)
    /\ is_group_active(ev'.chat_id)

(* C29: a user in creative-prompt mode leaves it only in a step that       *)
(* handles an update of that user which is a text routed to the            *)
(* creative-prompt handler or a mode-switch command (/image or /chat); an  *)
(* activation or deactivation phrase, a text dropped in a silent group, a  *)
(* photo, any other command and every update of another user leave the     *)
(* mode at creative-prompt; and the next text of the user that passes the  *)
(* group gate, in the private chat or in the group, is routed to the       *)
(* creative-prompt handler and puts the user back into chat mode.          *)
C29_OneShotMode ==
    [][\A u \in OneShotUsers :
        InCreativePrompt(user_modes, u)
        => /\ ~InCreativePrompt(user_modes', u)
              => /\ ev'.user_id = u
                 /\ \/ ev'.handler = "handle_message"
                       /\ ev'.route = "imagine_prompt"
                    \/ ev'.handler \in {"image_mode_command",
                                        "chat_mode_command"}
           /\ TextPastGate(u)
              => /\ ev'.route = "imagine_prompt"
                 /\ Mode(user_modes', u) = "chat"]_vars

\* user 1 is still in creative-prompt mode after their text was dropped in
\* the silent group, and user 2 has written in chat mode meanwhile
C29_Witness ==
    /\ InCreativePrompt(user_modes, 1)
    /\ ev.handler = "handle_message"
    /\ ev.user_id = 1
    /\ ev.route = "dropped"
    /\ ev.chat_id = -1
    /\ 2 \in DOMAIN conversations

====
